---- MODULE Spec2Model ----
(***************************************************************************)
(* Model of import.py (YNAB4 -> Firefly III importer): the canonicalization *)
(* of register rows into transaction groups (_read_ynab_data,              *)
(* _process_budgets, _process_accounts, _process_transactions) and the     *)
(* replay of the groups against the remote (_create_payee_accounts,        *)
(* _create_transactions, _verify_running_balance).                         *)
(*                                                                         *)
(* Representation.  Decimal amounts are integers.  A date is the integer   *)
(* 100 * month + day.  A payee text is the sequence of its " / "-separated  *)
(* pieces, each the sequence of its " : "-separated pieces, so that         *)
(* "Y / Transfer : X" is << <<"Y">>, <<"Transfer", "X">> >>.  A category    *)
(* text is the sequence of its backtick-separated segments.  A memo is a   *)
(* record of what the code reads from it: whether it holds "(Split ", and  *)
(* the groups MEMO_RE captures (code "" when no match).                    *)
(***************************************************************************)
EXTENDS Integers, Sequences, FiniteSets, TLC

VARIABLES
    pc,                 \* position in Importer.run
    error,              \* the exception that ended the run ("" if none)
    register,           \* rows of the register file, in file order
    all_budgets,        \* rows of the budget file (self.all_budgets)
    all_transactions,   \* self.all_transactions
    budgets,            \* self.data.budgets: name -> active
    categories,         \* self.data.categories
    revenue_accounts,   \* self.data.revenue_accounts
    expense_accounts,   \* self.data.expense_accounts
    asset_accounts,     \* names of self.data.asset_accounts, in list order
    running_balances,   \* self.data.running_balances
    transaction_groups, \* self.data.transaction_groups
    firefly_data,       \* firefly_data: currencies, categories, budgets,
                        \* budget_limits, asset_accounts
    firefly_payees,     \* firefly_data.revenue_accounts / expense_accounts
    cache_file,         \* the file .cache/firefly_data.json
    remote,             \* what the remote holds of each kind when the run starts
    fault,              \* the calls the remote answers with a failure
    skip_budget_limits_import,  \* config.skip_budget_limits_import
    calls,              \* the calls of the reconciliation passes, in order
    passes,             \* the steps of run() after the canonicalization, as entered
    dry_run,            \* the dry_run argument of run()
    connected,          \* GET /api/v1/about/user was sent
    paging,             \* a call of FireflySession.get_all_pages and the remote's listing
    firefly_balances,   \* running_balance of firefly_data.asset_accounts
    filter_min_date,    \* self.filter_min_date (0 = None)
    filter_max_date,    \* self.filter_max_date (0 = None)
    idx,                \* groups taken by the loop of _create_transactions
    current_month,      \* current_month of _create_transactions
    imported,           \* imported counter
    ignored,            \* ignored counter
    posted,             \* indices of the groups POSTed to /api/v1/transactions
    response,           \* the remote's answer to the last POST
    verified            \* months for which _verify_running_balance was called

vars == <<pc, error, register, all_budgets, all_transactions, budgets, categories,
          revenue_accounts, expense_accounts, asset_accounts, running_balances,
          transaction_groups, firefly_data, firefly_payees, cache_file, remote,
          fault, skip_budget_limits_import, calls, passes, dry_run, connected,
          paging,
          firefly_balances,
          filter_min_date,
          filter_max_date, idx, current_month, imported, ignored, posted,
          response, verified>>

-----------------------------------------------------------------------------
(* Bounds of the model *)

MaxRows == 3

MaxErrors == 2

-----------------------------------------------------------------------------
(* Configuration (class Config) *)

ConfigCurrency == "USD"

\* config.accounts[acc].currency ("" when the account is not configured)
AccCurrency(acc) ==
    IF acc \in {"F", "G"} THEN "EUR" ELSE IF acc = "H" THEN "GBP" ELSE ""

\* config.currency_conv_fallback.get(code); 0 stands for a missing entry
ConvFallback(code) == IF code = "EUR" THEN 2 ELSE 0

IsForeign(acc) == AccCurrency(acc) # "" /\ AccCurrency(acc) # ConfigCurrency

\* config.payee_mapping and config.budget_mapping are empty
PayeeMapping == [p \in {} |-> ""]

EmptyText == <<"">>

\* a dictionary, and the assignment d[k] = v
EmptyMap == <<>>

Put(f, k, v) == (k :> v) @@ f

-----------------------------------------------------------------------------
(* Dates *)

\* date.replace(day=1)
MonthStart(d) == (d \div 100) * 100 + 1

-----------------------------------------------------------------------------
(* Register rows *)

Plain(n) == << <<n>> >>

TransferTo(acc) == << <<"Transfer", acc>> >>

CompositeTransferTo(pre, acc) == << <<pre>>, <<"Transfer", acc>> >>

\* the text of a payee that holds no separator
PayeeName(payee) == payee[1][1]

NoMemo == [split |-> FALSE, code |-> "", num |-> 0, k |-> FALSE]

SplitMemo == [split |-> TRUE, code |-> "", num |-> 0, k |-> FALSE]

CurrencyMemo(code, num) == [split |-> FALSE, code |-> code, num |-> num, k |-> FALSE]

\* a memo such as "EUR 1K": MEMO_RE matches with group 3 = "K"
ThousandsMemo(code, num) == [split |-> FALSE, code |-> code, num |-> num, k |-> TRUE]

YNABTransaction(acc, d, payee, master, sub, memo, out, inf, bal) ==
    [account |-> acc, date |-> d, payee |-> payee, master_category |-> master,
     sub_category |-> sub, memo |-> memo, outflow |-> out, inflow |-> inf,
     running_balance |-> bal]

\* Every account of the export opens with a "Starting Balance" row.
StartingRows ==
    << YNABTransaction("A", 101, Plain("Starting Balance"), "", EmptyText, NoMemo, 0, 100, 100),
       YNABTransaction("B", 101, Plain("Starting Balance"), "", EmptyText, NoMemo, 0, 500, 500),
       YNABTransaction("F", 101, Plain("Starting Balance"), "", EmptyText, NoMemo, 0, 100, 100),
       YNABTransaction("G", 101, Plain("Starting Balance"), "", EmptyText, NoMemo, 0, 100, 100),
       YNABTransaction("H", 101, Plain("Starting Balance"), "", EmptyText, NoMemo, 0, 100, 100) >>

\* Rows of the budget file: a plain budget, a hidden one, a pre-YNAB one.
YNABBudget(m, cat, master, sub, budgeted) ==
    [month |-> m, category |-> cat, master_category |-> master,
     sub_category |-> sub, budgeted |-> budgeted]

AllBudgets ==
    << YNABBudget(101, "Everyday:Food", "Everyday", <<"Food">>, 40),
       YNABBudget(101, "Hidden:Old", "Hidden Categories", <<"Everyday", "Old", "1">>, 0),
       YNABBudget(101, "Pre-YNAB Debt:Card", "Pre-YNAB Debt", <<"Card">>, 0) >>

IsHidden(bg) == bg.master_category = "Hidden Categories"

\* the category texts of the budget files that start with "Pre-YNAB Debt"
PreYnabCategories == {"Pre-YNAB Debt:Card", "Pre-YNAB Debt:Loan"}

IsPreYnab(bg) == bg.category \in PreYnabCategories

-----------------------------------------------------------------------------
(* Module-level helpers *)

\* "Transfer : " in tx.payee
IsTransfer(tx) ==
    \E i \in 1..Len(tx.payee) :
        \E j \in 1..(Len(tx.payee[i]) - 1) : tx.payee[i][j] = "Transfer"

\* " / Transfer : " in tx.payee
HasCompositeMarker(tx) ==
    \E i \in 2..Len(tx.payee) :
        Len(tx.payee[i]) >= 2 /\ tx.payee[i][1] = "Transfer"

TransferAccount(tx) ==
    IF HasCompositeMarker(tx)
    THEN tx.payee[2][2]
    ELSE tx.payee[1][2]

\* variant: the payee is canonicalised but the direction is never corrected
CorrectTransferKeepsDirection(tx) ==
    [tx EXCEPT !.payee = Plain(TransferAccount(tx))]

CorrectTransferToFrom(tx) ==
    IF tx.outflow > 0
    THEN [tx EXCEPT !.payee = Plain(TransferAccount(tx))]
    ELSE [tx EXCEPT !.account = TransferAccount(tx),
                    !.payee = Plain(tx.account),
                    !.running_balance = -1,
                    !.outflow = tx.inflow,
                    !.inflow = tx.outflow]

-----------------------------------------------------------------------------
(* Importer helpers *)

Payee(tx) ==
    IF PayeeName(tx.payee) \in DOMAIN PayeeMapping
    THEN PayeeMapping[PayeeName(tx.payee)] ELSE PayeeName(tx.payee)

\* tx.outflow or tx.inflow
OutflowOrInflow(tx) == IF tx.outflow # 0 THEN tx.outflow ELSE tx.inflow

MemoMatches(tx, code) == tx.memo.code # "" /\ tx.memo.code = code

\* m.group(2): the text matched by [0-9,\\.]+, kept by the number it spells;
\* the marker K is matched by group 3 and is no part of it
MemoGroup2(tx) == <<"digits", tx.memo.num>>

\* the memo amount of _transfer_foreign_amount: Decimal(m.group(2)), times
\* 1000 if m.group(2) == "K"
MemoAmount(tx) ==
    IF MemoGroup2(tx) = <<"K">> THEN tx.memo.num * 1000 ELSE tx.memo.num

\* variant: the fallback rate is preferred to the memo
AmountFallbackFirst(tx) ==
    IF ~IsForeign(tx.account)
    THEN [ok |-> TRUE, value |-> OutflowOrInflow(tx)]
    ELSE IF ConvFallback(AccCurrency(tx.account)) # 0
    THEN [ok |-> TRUE, value |-> OutflowOrInflow(tx) * ConvFallback(AccCurrency(tx.account))]
    ELSE IF MemoMatches(tx, AccCurrency(tx.account))
    THEN [ok |-> TRUE, value |-> tx.memo.num * (IF tx.inflow > 0 THEN -1 ELSE 1)]
    ELSE [ok |-> FALSE, value |-> 0]

\* _amount: [ok, value]; ok = FALSE is the ValueError
Amount(tx) ==
    IF ~IsForeign(tx.account)
    THEN [ok |-> TRUE, value |-> OutflowOrInflow(tx)]
    ELSE IF MemoMatches(tx, AccCurrency(tx.account))
    THEN [ok |-> TRUE, value |-> tx.memo.num * (IF tx.inflow > 0 THEN -1 ELSE 1)]
    ELSE IF ConvFallback(AccCurrency(tx.account)) = 0
    THEN [ok |-> FALSE, value |-> 0]
    ELSE [ok |-> TRUE, value |-> OutflowOrInflow(tx) * ConvFallback(AccCurrency(tx.account))]

Abs(x) == IF x < 0 THEN -x ELSE x

\* _category with category_field = "Sub Category"
Category(tx) == tx.sub_category

\* _budget with budget_field = "Sub Category": [ok, name]; ok = FALSE is the
\* IndexError of split("`")[1].  A hidden budget's name is the second segment
\* with the suffix " (hidden)", kept as a pair.
Budget(tx) ==
    IF tx.master_category = "Hidden Categories"
    THEN IF Len(tx.sub_category) < 2
         THEN [ok |-> FALSE, name |-> EmptyText]
         ELSE [ok |-> TRUE, name |-> <<tx.sub_category[2], " (hidden)">>]
    ELSE [ok |-> TRUE, name |-> tx.sub_category]

\* variant: the row amount is returned whenever a side is foreign
TransferForeignAmountAnyForeign(tx) ==
    IF IsForeign(tx.account) \/ IsForeign(PayeeName(tx.payee))
    THEN [err |-> "", value |-> OutflowOrInflow(tx)]
    ELSE [err |-> "", value |-> 0]

\* _transfer_foreign_amount on a corrected row: [err, value]; value 0 is None
TransferForeignAmount(tx) ==
    LET to_account == PayeeName(tx.payee)
        code == AccCurrency(to_account)
        fallback_amount == OutflowOrInflow(tx) * ConvFallback(code)
    IN  IF IsForeign(tx.account) /\ ~IsForeign(to_account)
        THEN [err |-> "", value |-> OutflowOrInflow(tx)]
        ELSE IF ~IsForeign(tx.account) /\ IsForeign(to_account)
        THEN IF MemoMatches(tx, code)
             THEN IF fallback_amount # 0 /\ 5 * Abs(MemoAmount(tx) - fallback_amount) > fallback_amount
                  THEN [err |-> "AssertionError", value |-> 0]
                  ELSE [err |-> "", value |-> MemoAmount(tx)]
             ELSE IF fallback_amount = 0
                  THEN [err |-> "ValueError", value |-> 0]
                  ELSE [err |-> "", value |-> fallback_amount]
        ELSE IF IsForeign(tx.account) /\ IsForeign(to_account)
                /\ AccCurrency(tx.account) # AccCurrency(to_account)
        THEN [err |-> "AssertionError", value |-> 0]
        ELSE [err |-> "", value |-> 0]

-----------------------------------------------------------------------------
(* _read_ynab_data: sorted(key=(date, outflow - inflow)), a stable sort *)

SortKeyLess(a, b) ==
    \/ a.date < b.date
    \/ a.date = b.date /\ a.outflow - a.inflow < b.outflow - b.inflow

\* the position of row i in the sorted list: after the rows of a smaller
\* key and after the earlier rows of the same key (the sort is stable)
SortedPosition(s, i) ==
    1 + Cardinality({j \in 1..Len(s) :
            \/ SortKeyLess(s[j], s[i])
            \/ ~SortKeyLess(s[i], s[j]) /\ j < i})

SortedRows(s) ==
    [p \in 1..Len(s) |-> s[CHOOSE i \in 1..Len(s) : SortedPosition(s, i) = p]]

-----------------------------------------------------------------------------
(* _process_budgets *)

SyntheticBudgets == {<<"Available this month">>, <<"Available next month">>}

BudgetRows == {all_budgets[i] : i \in 1..Len(all_budgets)}

ProcessedCategories ==
    {Category(bg) : bg \in {b \in BudgetRows : Category(b) # EmptyText /\ ~IsHidden(b)}}
        \cup SyntheticBudgets

\* variant: the pre-YNAB rows are taken too
BudgetPairsWithPreYnab ==
    {<<Budget(bg).name, IsHidden(bg)>> :
        bg \in {b \in BudgetRows : Budget(b).name # EmptyText}}

BudgetPairs ==
    {<<Budget(bg).name, IsHidden(bg)>> :
        bg \in {b \in BudgetRows : ~IsPreYnab(b) /\ Budget(b).name # EmptyText}}

ProcessedBudgets ==
    LET names == {p[1] : p \in BudgetPairs} \cup SyntheticBudgets
    IN  [n \in names |->
            IF n \in SyntheticBudgets THEN TRUE
            ELSE ~(CHOOSE p \in BudgetPairs : p[1] = n)[2]]

-----------------------------------------------------------------------------
(* _process_accounts *)

Rows(txs) == {txs[i] : i \in 1..Len(txs)}

AccountNames(txs) == {tx.account : tx \in Rows(txs)}

ConfigAccounts == {"F", "G", "H"}

StartingBalanceAccounts(txs) ==
    {tx.account : tx \in {t \in Rows(txs) : t.payee = Plain("Starting Balance")}}

\* variant: the payees of the outflow rows
RevenueAccountsFromOutflows(txs) ==
    {Payee(tx) : tx \in {t \in Rows(txs) : t.outflow > 0 /\ ~IsTransfer(t)}}

RevenueAccounts(txs) ==
    {Payee(tx) : tx \in {t \in Rows(txs) : t.inflow > 0 /\ ~IsTransfer(t)}}

ExpenseAccounts(txs) ==
    {Payee(tx) : tx \in {t \in Rows(txs) : t.outflow > 0 /\ ~IsTransfer(t)}}

-----------------------------------------------------------------------------
(* _process_transactions *)

\* One pass of the loop over reversed(all_transactions).  The dictionary is
\* keyed by month, and the code tests a (month, account) pair against its keys.
RunningBalanceOf(tx, rb) ==
    LET m == <<MonthStart(tx.date)>>
        old == IF m \in DOMAIN rb THEN rb[m] ELSE EmptyMap
    IN  IF <<MonthStart(tx.date), tx.account>> \notin DOMAIN rb
        THEN Put(rb, m, Put(old, tx.account, tx.running_balance))
        ELSE rb

\* The passes for the rows at positions hi down to lo, the range taken in
\* halves: the upper half is evaluated, then the lower half starts from it.
RECURSIVE RunningBalances(_, _, _, _)
RunningBalances(txs, lo, hi, rb) ==
    IF lo > hi THEN rb
    ELSE IF lo = hi THEN RunningBalanceOf(txs[lo], rb)
    ELSE LET mid == (lo + hi) \div 2
             upper == RunningBalances(txs, mid + 1, hi, rb)
         IN  IF upper = rb
             THEN RunningBalances(txs, lo, mid, rb)
             ELSE RunningBalances(txs, lo, mid, upper)

Removed(tx) ==
    (tx.inflow = 0 /\ tx.outflow = 0) \/ tx.payee = Plain("Starting Balance")

Indices(txs) == [i \in 1..Len(txs) |-> i]

SplitIndices(txs) ==
    SelectSeq(Indices(txs), LAMBDA i : ~Removed(txs[i]) /\ txs[i].memo.split)

NonSplitIndices(txs) ==
    SelectSeq(Indices(txs), LAMBDA i : ~Removed(txs[i]) /\ ~txs[i].memo.split)

\* variant: the running balance is left out of the key
SplitGroupKeyWithoutBalance(tx) == <<tx.account, tx.date>>

SplitGroupKey(tx) == <<tx.account, tx.date, tx.running_balance>>

\* splits_grouped: one list per key, in the order the keys first appear
SplitsGrouped(txs) ==
    LET sp == SplitIndices(txs)
        firsts == SelectSeq(sp, LAMBDA i :
                     \A j \in 1..(i - 1) :
                        (~Removed(txs[j]) /\ txs[j].memo.split)
                            => SplitGroupKey(txs[j]) # SplitGroupKey(txs[i]))
    IN  [n \in 1..Len(firsts) |->
            SelectSeq(sp, LAMBDA j : SplitGroupKey(txs[j]) = SplitGroupKey(txs[firsts[n]]))]

\* all_tx_grouped, as lists of positions in all_transactions
AllTxGrouped(txs) ==
    LET ns == NonSplitIndices(txs)
    IN  SplitsGrouped(txs) \o [n \in 1..Len(ns) |-> <<ns[n]>>]

TransferSeenMapKey(tx) ==
    <<{tx.account, PayeeName(tx.payee)}, tx.date, Abs(tx.outflow - tx.inflow)>>

SeenCount(seen, key) == IF key \in DOMAIN seen THEN seen[key] ELSE 0

\* variant: no row is dropped
TransferNeverDropped(seen, key) == FALSE

\* variant: every row after the first of its key is dropped
TransferDroppedOnceSeen(seen, key) == SeenCount(seen, key) >= 1

\* the de-duplication test of a transfer row: TRUE when the row is dropped
TransferDropped(seen, key) == SeenCount(seen, key) % 2 = 1

SetSeen(seen, key, n) == Put(seen, key, n)

Unbound == <<"<unbound>">>

Transfer(tx, amount, foreign_amount, external_id, src) ==
    [type |-> "transfer", date |-> tx.date, amount |-> amount,
     external_id |-> external_id, from_account |-> tx.account,
     to_account |-> PayeeName(tx.payee), foreign_amount |-> foreign_amount, src |-> src]

Withdrawal(tx, amount, budget, category, external_id, src) ==
    [type |-> "withdrawal", date |-> tx.date, amount |-> amount,
     external_id |-> external_id, account |-> tx.account, payee |-> Payee(tx),
     budget |-> budget, category |-> category, src |-> src]

Deposit(tx, amount, budget, category, external_id, src) ==
    [type |-> "deposit", date |-> tx.date, amount |-> amount,
     external_id |-> external_id, account |-> tx.account, payee |-> Payee(tx),
     budget |-> budget, category |-> category, src |-> src]

\* str(Decimal): the text of the value
DecimalStr(d) == [t |-> "str", v |-> <<d>>]

\* variant: the key is read after the transfer rewrite
ExternalIdAfterRewrite(tx0) ==
    DecimalStr(IF IsTransfer(tx0) THEN CorrectTransferToFrom(tx0).running_balance
               ELSE tx0.running_balance)

\* external_id of the legs of a row, read from the row as it stands in
\* all_transactions, before _correct_transfer_to_from
ExternalId(tx0) == DecimalStr(tx0.running_balance)

\* One pass of the inner loop, for the row at position i.  st holds the
\* accumulators of the pass: the seen map, the local variable category, the
\* legs of the group in hand, and the exception raised ("" if none).  A leg's
\* src is the position of its row, kept for reference.
ProcessRow(txs, i, st) ==
    LET tx0 == txs[i]
        b == Budget(tx0)
        budget == b.name
        known == budget \in DOMAIN budgets
        active == known /\ budgets[budget]
        category == IF budget = EmptyText THEN EmptyText
                    ELSE IF active THEN Category(tx0)
                    ELSE st.category
        st1 == [st EXCEPT !.category = category]
        external_id == ExternalId(tx0)
        tx == CorrectTransferToFrom(tx0)
        key == TransferSeenMapKey(tx)
        amt == Amount(IF IsTransfer(tx0) THEN tx ELSE tx0)
        fa == TransferForeignAmount(tx)
    IN  IF ~b.ok THEN [st EXCEPT !.err = "IndexError"]
        ELSE IF budget # EmptyText /\ ~known THEN [st EXCEPT !.err = "AssertionError"]
        ELSE IF active /\ category # EmptyText /\ category \notin categories
             THEN [st EXCEPT !.err = "AssertionError"]
        ELSE IF IsTransfer(tx0)
        THEN IF TransferDropped(st.seen, key)
             THEN [st1 EXCEPT !.seen = SetSeen(st.seen, key, SeenCount(st.seen, key) + 1)]
             ELSE IF ~amt.ok THEN [st1 EXCEPT !.err = "ValueError"]
             ELSE IF fa.err # "" THEN [st1 EXCEPT !.err = fa.err]
             ELSE [st1 EXCEPT !.seen = SetSeen(st.seen, key, 1),
                              !.legs = Append(st.legs,
                                  Transfer(tx, amt.value, fa.value, external_id, i))]
        ELSE IF tx0.outflow > 0
        THEN IF ~amt.ok THEN [st1 EXCEPT !.err = "ValueError"]
             ELSE IF category = Unbound THEN [st1 EXCEPT !.err = "UnboundLocalError"]
             ELSE [st1 EXCEPT !.legs = Append(st.legs,
                      Withdrawal(tx0, amt.value, budget, category, external_id, i))]
        ELSE IF tx0.inflow > 0
        THEN IF ~amt.ok THEN [st1 EXCEPT !.err = "ValueError"]
             ELSE IF category = Unbound THEN [st1 EXCEPT !.err = "UnboundLocalError"]
             ELSE [st1 EXCEPT !.legs = Append(st.legs,
                      Deposit(tx0, amt.value, budget, category, external_id, i))]
        ELSE [st1 EXCEPT !.err = "ValueError"]

RECURSIVE ProcessGroup(_, _, _, _)
ProcessGroup(txs, group, k, st) ==
    IF k > Len(group) \/ st.err # "" THEN st
    ELSE ProcessGroup(txs, group, k + 1, ProcessRow(txs, group[k], st))

TransactionGroup(legs) == [title |-> "(empty description)", transactions |-> legs]

\* variant: the group is kept whatever it holds
ProcessTxGroupKeepsEmpty(txs, group, st) ==
    LET done == ProcessGroup(txs, group, 1, [st EXCEPT !.legs = <<>>])
    IN  IF done.err = ""
        THEN [done EXCEPT !.groups = Append(done.groups, TransactionGroup(done.legs))]
        ELSE done

\* One pass of the outer loop: a group is kept only if it has a leg.
ProcessTxGroup(txs, group, st) ==
    LET done == ProcessGroup(txs, group, 1, [st EXCEPT !.legs = <<>>])
    IN  IF done.err = "" /\ done.legs # <<>>
        THEN [done EXCEPT !.groups = Append(done.groups, TransactionGroup(done.legs))]
        ELSE done

\* The outer loop over the groups at positions lo..hi, the range taken in
\* halves (lower half first); an exception ends it.
RECURSIVE ProcessGroups(_, _, _, _, _)
ProcessGroups(txs, grouped, lo, hi, st) ==
    IF lo > hi \/ st.err # "" THEN st
    ELSE IF lo = hi THEN ProcessTxGroup(txs, grouped[lo], st)
    ELSE LET mid == (lo + hi) \div 2
         IN  ProcessGroups(txs, grouped, mid + 1, hi,
                 ProcessGroups(txs, grouped, lo, mid, st))

ProcessedTransactions(txs) ==
    ProcessGroups(txs, AllTxGrouped(txs), 1, Len(AllTxGrouped(txs)),
        [seen |-> EmptyMap, category |-> Unbound, err |-> "",
         groups |-> <<>>, legs |-> <<>>])

-----------------------------------------------------------------------------
(* _firefly_create_transaction_errors *)

\* One item of response.json()["errors"]: the key "transactions.<i>.<child>"
\* or a top-level key, with its list of messages.  A message is a record:
\* dup says that it matches DUPLICATE_TX_RE, id is the number it captures.
PerLegError(i, child, msgs) ==
    [field |-> "transactions", tx_idx |-> i, child_field |-> child, messages |-> msgs]

TopLevelError(field, msgs) ==
    [field |-> field, tx_idx |-> 0, child_field |-> "", messages |-> msgs]

DuplicateOf(id) == [dup |-> TRUE, id |-> id]

OtherMessage == [dup |-> FALSE, id |-> 0]

IsDuplicateItem(e) == Len(e.messages) = 1 /\ e.messages[1].dup

\* the loop over the items; err is the AssertionError of the two asserts
RECURSIVE FireflyCreateTransactionErrors(_, _, _)
FireflyCreateTransactionErrors(errors, n, acc) ==
    IF n > Len(errors) \/ acc.err # "" THEN acc
    ELSE LET e == errors[n]
             next ==
                IF e.field # "transactions"
                THEN [acc EXCEPT !.other_errors = Put(acc.other_errors, e.field, e.messages)]
                ELSE IF IsDuplicateItem(e)
                THEN IF e.tx_idx \in DOMAIN acc.other_tx_errors
                     THEN [acc EXCEPT !.err = "AssertionError"]
                     ELSE [acc EXCEPT !.dup_errors =
                              Put(acc.dup_errors, e.tx_idx, e.messages[1].id)]
                ELSE IF e.tx_idx \in DOMAIN acc.dup_errors
                     THEN [acc EXCEPT !.err = "AssertionError"]
                     ELSE [acc EXCEPT !.other_tx_errors =
                              Put(acc.other_tx_errors, e.tx_idx,
                                  Put(IF e.tx_idx \in DOMAIN acc.other_tx_errors
                                      THEN acc.other_tx_errors[e.tx_idx] ELSE EmptyMap,
                                      e.child_field, e.messages))]
         IN  FireflyCreateTransactionErrors(errors, n + 1, next)

CreateTransactionErrors(errors) ==
    FireflyCreateTransactionErrors(errors, 1,
        [dup_errors |-> EmptyMap, other_tx_errors |-> EmptyMap,
         other_errors |-> EmptyMap, err |-> ""])

-----------------------------------------------------------------------------
(* The remote's answers to POST /api/v1/transactions *)

ErrorItems ==
    { PerLegError(0, "description", <<DuplicateOf(7)>>),
      PerLegError(1, "description", <<DuplicateOf(8)>>),
      PerLegError(0, "amount", <<OtherMessage>>),
      PerLegError(1, "amount", <<DuplicateOf(7), DuplicateOf(8)>>),
      TopLevelError("group_title", <<OtherMessage>>) }

ItemKey(e) == <<e.field, e.tx_idx, e.child_field>>

\* the "errors" objects: up to MaxErrors items, no key twice
ErrorPayloads ==
    UNION { { s \in [1..n -> ErrorItems] :
                \A i, j \in 1..n : i # j => ItemKey(s[i]) # ItemKey(s[j]) } :
            n \in 0..MaxErrors }

Responses ==
    {[status |-> 200, errors |-> <<>>], [status |-> 500, errors |-> <<>>]}
        \cup {[status |-> 422, errors |-> p] : p \in ErrorPayloads}

NoResponse == [status |-> 0, errors |-> <<>>]

\* variant: the top-level errors are not looked at
SubmissionErrorPerLegOnly(resp) ==
    IF resp.status = 200 THEN ""
    ELSE IF resp.status = 422
    THEN LET r == CreateTransactionErrors(resp.errors)
         IN  IF r.err # "" THEN r.err
             ELSE IF r.other_tx_errors # EmptyMap THEN "HTTPError"
             ELSE ""
    ELSE "HTTPError"

\* What the except clause of _create_transactions does with a response:
\* "" when the group counts as imported, else the exception that propagates.
SubmissionError(resp) ==
    IF resp.status = 200 THEN ""
    ELSE IF resp.status = 422
    THEN LET r == CreateTransactionErrors(resp.errors)
         IN  IF r.err # "" THEN r.err
             ELSE IF r.other_tx_errors # EmptyMap \/ r.other_errors # EmptyMap
             THEN "HTTPError"
             ELSE ""
    ELSE "HTTPError"

-----------------------------------------------------------------------------
(* _verify_running_balance *)

MonthBalances(month) ==
    IF <<month>> \in DOMAIN running_balances
    THEN running_balances[<<month>>] ELSE EmptyMap

\* variant: foreign-currency accounts are compared too
BalanceMismatchAnyAccount(month, firefly_balance) ==
    \E account \in DOMAIN MonthBalances(month) :
        MonthBalances(month)[account] # firefly_balance[account]

\* TRUE when the comparison loop raises
BalanceMismatch(month, firefly_balance) ==
    \E account \in DOMAIN MonthBalances(month) :
        /\ ~IsForeign(account)
        /\ MonthBalances(month)[account] # firefly_balance[account]

Accounts == {"A", "B", "F", "G", "H"}

\* the accounts whose remote balance may differ from the export's: the two
\* default-currency accounts and a foreign-currency one
DriftAccounts == {"A", "B", "F"}

\* The balances the re-fetch can bring: the export's month-end balances, or
\* these with one account's balance off by one.
RemoteBalances(month) ==
    { [a \in Accounts |->
          LET b == IF a \in DOMAIN MonthBalances(month) THEN MonthBalances(month)[a] ELSE 0
          IN  IF a \in drift THEN b + 1 ELSE b] : drift \in {{}} \cup {{a} : a \in DriftAccounts} }

-----------------------------------------------------------------------------
(* Values exchanged with the remote, _firefly_compare, _firefly_needs_update *)

\* A value of a request body or of a remote attribute, with its type: a
\* string, a boolean, a number, a date, or None.
Str(s) == [t |-> "str", v |-> <<s>>]

Bool(b) == [t |-> "bool", v |-> <<b>>]

Num(n) == [t |-> "num", v |-> <<n>>]

Date(d) == [t |-> "date", v |-> <<d>>]

None == [t |-> "none", v |-> <<>>]

\* obj.format("YYYY-MM-DD")
FormatDate(d) == [t |-> "str", v |-> <<"YYYY-MM-DD", d>>]

\* obj == 0 for a desired value
EqualsZero(obj) ==
    \/ obj.t = "num" /\ obj.v = <<0>>
    \/ obj.t = "bool" /\ obj.v = <<FALSE>>

FireflyCompare(obj, firefly_obj) ==
    IF obj.t = "date" THEN FormatDate(obj.v[1]) = firefly_obj
    ELSE IF obj.t = "num" /\ firefly_obj.t # "none"
    THEN firefly_obj.t = "num" /\ obj.v = firefly_obj.v
    ELSE IF firefly_obj.t = "none" THEN EqualsZero(obj)
    ELSE obj = firefly_obj

\* firefly_obj["attributes"].get(k)
Attribute(firefly_obj, k) ==
    IF k \in DOMAIN firefly_obj.attributes THEN firefly_obj.attributes[k] ELSE None

FireflyNeedsUpdate(obj, firefly_obj) ==
    \E k \in DOMAIN obj : ~FireflyCompare(obj[k], Attribute(firefly_obj, k))

\* the remote's representation of an entity: its id and its attributes
Entity(attributes) == [id |-> "id", attributes |-> attributes]

-----------------------------------------------------------------------------
(* Calls to the remote and their failures *)

Call(pass, method, target) == [pass |-> pass, method |-> method, target |-> target]

NoFault == [pass |-> "", method |-> "", status |-> 0]

\* the remote answers every call of this method made by this pass with
\* fault.status
Fails(pass, method) == fault.pass = pass /\ fault.method = method

\* the call raises an exception that leaves the pass: every failure does,
\* except the status 500 inside the try block of _create_budgets
Fatal(call) ==
    /\ Fails(call.pass, call.method)
    /\ ~(call.pass = "budgets" /\ call.method \in {"PUT", "POST"} /\ fault.status = 500)

\* the elements of a set in the order a loop takes them
RECURSIVE InOrder(_)
InOrder(S) ==
    IF S = {} THEN <<>>
    ELSE LET x == CHOOSE y \in S : TRUE IN <<x>> \o InOrder(S \ {x})

\* the number of planned calls that are made: up to the first fatal one
Cut(plan) ==
    LET bad == {i \in 1..Len(plan) : Fatal(plan[i])}
    IN  IF bad = {} THEN Len(plan) ELSE CHOOSE i \in bad : \A j \in bad : i <= j

Issued(plan) == SubSeq(plan, 1, Cut(plan))

Raised(plan) == \E i \in 1..Len(plan) : Fatal(plan[i])

\* the targets of the create calls that were made and answered
Created(plan) ==
    {plan[i].target : i \in {j \in 1..Cut(plan) :
        plan[j].method = "POST" /\ ~Fails(plan[j].pass, "POST")}}

\* the result of a pass: the exception ("" if none), the cache of its kind
\* and the calls it made
PassResult(err, cache, made) ==
    [err |-> err, cache |-> cache, calls |-> made, returned_early |-> FALSE]

\* the result of a pass that returns at its cache check
ReturnedEarly(cache) ==
    [err |-> "", cache |-> cache, calls |-> <<>>, returned_early |-> TRUE]

\* One pass of a loop over the desired entities: the lookup it makes raises
\* KeyError, or it makes the calls (none, an update or a create).
Step(key_error, made) == [key_error |-> key_error, calls |-> made]

\* the steps that are entered: those before the first KeyError
Entered(steps) ==
    LET bad == {i \in 1..Len(steps) : steps[i].key_error}
    IN  IF bad = {} THEN steps
        ELSE SubSeq(steps, 1, (CHOOSE i \in bad : \A j \in bad : i <= j) - 1)

RECURSIVE ConcatAll(_)
ConcatAll(ss) == IF ss = <<>> THEN <<>> ELSE Head(ss) \o ConcatAll(Tail(ss))

\* The remote at the start of the run, kind by kind: "none" (it holds no
\* entity of the kind), "same" (it holds every desired entity, with the
\* desired attributes) or "differs" (it holds every desired entity, one
\* attribute differing from the desired one).  For the currencies the three
\* are tables of the remote's currencies.
RemoteWorld(w) ==
    [currencies |-> w, categories |-> w, budgets |-> w, budget_limits |-> w,
     asset_accounts |-> w, revenue |-> w, expense |-> w]

-----------------------------------------------------------------------------
(* _create_currencies *)

CurrencyCodes == {"USD", "EUR", "GBP", "INR", "JPY"}

\* int(d["id"]) of a currency
CurrencyId(code) ==
    CASE code = "USD" -> 1 [] code = "EUR" -> 2 [] code = "GBP" -> 3
      [] code = "INR" -> 4 [] OTHER -> 5

\* the attributes "default" and "enabled" of the remote's currencies
CurrencyTable(w) ==
    CASE w = "same" ->
            [c \in CurrencyCodes |->
                [default |-> c = "USD", enabled |-> c \in {"USD", "EUR", "INR"}]]
      [] w = "differs" ->
            [c \in CurrencyCodes |->
                [default |-> c = "EUR", enabled |-> c \in {"USD", "GBP", "JPY"}]]
      [] OTHER ->
            [c \in CurrencyCodes |->
                [default |-> c = "EUR", enabled |-> c \in {"EUR", "GBP"}]]

\* the calls the loop makes for one currency of the listing
CurrencyCalls(code, data) ==
    (IF code = ConfigCurrency /\ ~data.default
     THEN <<Call("currencies", "POST", <<code, "default">>)>> ELSE <<>>)
    \o (IF code \in {ConfigCurrency, "INR", "EUR"}
        THEN IF ~data.enabled
             THEN <<Call("currencies", "POST", <<code, "enable">>)>> ELSE <<>>
        ELSE IF data.enabled
             THEN <<Call("currencies", "POST", <<code, "disable">>)>> ELSE <<>>)

CurrenciesPass(cache) ==
    LET listing == CurrencyTable(remote.currencies)
        order == InOrder(DOMAIN listing)
        plan == ConcatAll([i \in 1..Len(order) |-> CurrencyCalls(order[i], listing[order[i]])])
        get == Call("currencies", "GET", <<>>)
    IN  IF cache # EmptyMap THEN ReturnedEarly(cache)
        ELSE IF Fails("currencies", "GET") THEN PassResult("HTTPError", cache, <<get>>)
        ELSE PassResult(IF Raised(plan) THEN "HTTPError" ELSE "",
                        [c \in DOMAIN listing |-> CurrencyId(c)],
                        <<get>> \o Issued(plan))

-----------------------------------------------------------------------------
(* _create_categories *)

CategoriesPass(cache) ==
    LET listed == IF remote.categories = "none" THEN EmptyMap
                  ELSE [c \in categories |-> "id"]
        order == InOrder(categories)
        missing == SelectSeq(order, LAMBDA c : c \notin DOMAIN listed)
        plan == [i \in 1..Len(missing) |-> Call("categories", "POST", missing[i])]
        get == Call("categories", "GET", <<>>)
    IN  IF cache # EmptyMap THEN ReturnedEarly(cache)
        ELSE IF Fails("categories", "GET") THEN PassResult("HTTPError", cache, <<get>>)
        ELSE PassResult(IF Raised(plan) THEN "HTTPError" ELSE "",
                        [c \in DOMAIN listed \cup Created(plan) |-> "id"],
                        <<get>> \o Issued(plan))

\* the planned calls of a loop, and the exception that ends it ("" if none)
Plan(steps) ==
    ConcatAll([i \in 1..Len(Entered(steps)) |-> Entered(steps)[i].calls])

LoopError(steps) ==
    IF Raised(Plan(steps)) THEN "HTTPError"
    ELSE IF Len(Entered(steps)) < Len(steps) THEN "KeyError"
    ELSE ""

-----------------------------------------------------------------------------
(* _create_budgets *)

\* the request body for a budget
BudgetData(name) == [name |-> Str(name), active |-> Bool(budgets[name])]

\* response["data"] of the listing
ListedBudgets ==
    CASE remote.budgets = "same" ->
            [n \in DOMAIN budgets |-> Entity(BudgetData(n))]
      [] remote.budgets = "differs" ->
            [n \in DOMAIN budgets |->
                Entity([BudgetData(n) EXCEPT !.active = Bool(~budgets[n])])]
      [] OTHER -> EmptyMap

BudgetStep(name, listed) ==
    IF name \in DOMAIN listed
    THEN IF FireflyNeedsUpdate(BudgetData(name), listed[name])
         THEN Step(FALSE, <<Call("budgets", "PUT", name)>>)
         ELSE Step(FALSE, <<>>)
    ELSE Step(FALSE, <<Call("budgets", "POST", name)>>)

\* a variant that lists and reconciles whatever the cache holds
BudgetsPassAlwaysLists(cache) ==
    LET listed == ListedBudgets
        order == InOrder(DOMAIN budgets)
        steps == [i \in 1..Len(order) |-> BudgetStep(order[i], listed)]
        get == Call("budgets", "GET", <<>>)
    IN  IF Fails("budgets", "GET") THEN PassResult("HTTPError", cache, <<get>>)
        ELSE PassResult(LoopError(steps),
                        [n \in DOMAIN cache \cup DOMAIN listed \cup Created(Plan(steps)) |->
                            IF n \in DOMAIN listed THEN listed[n]
                            ELSE IF n \in DOMAIN cache THEN cache[n]
                            ELSE Entity(BudgetData(n))],
                        <<get>> \o Issued(Plan(steps)))

BudgetsPass(cache) ==
    LET listed == ListedBudgets
        order == InOrder(DOMAIN budgets)
        steps == [i \in 1..Len(order) |-> BudgetStep(order[i], listed)]
        get == Call("budgets", "GET", <<>>)
    IN  IF cache # EmptyMap THEN ReturnedEarly(cache)
        ELSE IF Fails("budgets", "GET") THEN PassResult("HTTPError", cache, <<get>>)
        ELSE PassResult(LoopError(steps),
                        [n \in DOMAIN listed \cup Created(Plan(steps)) |->
                            IF n \in DOMAIN listed THEN listed[n]
                            ELSE Entity(BudgetData(n))],
                        <<get>> \o Issued(Plan(steps)))

-----------------------------------------------------------------------------
(* _create_budget_limits *)

\* the last day of the month that starts at d
MonthEnd(d) == d + 30

\* self.data.budget_history, as _process_budgets builds it
BudgetHistory ==
    {[name |-> Budget(bg).name, amount |-> bg.budgeted, start |-> bg.month,
      end |-> MonthEnd(bg.month)] :
        bg \in {b \in BudgetRows :
                  ~IsPreYnab(b) /\ Budget(b).name # EmptyText /\ b.budgeted # 0}}

LimitKey(h) == <<h.name, h.start, h.end>>

\* the request body for a budget limit; budget_id is read from the budgets cache
LimitData(h, budget_cache) ==
    [budget_id |-> Str(budget_cache[h.name].id), start |-> Date(h.start),
     end |-> Date(h.end), amount |-> Num(h.amount)]

\* the limits the listings of the cached budgets bring, keyed by
\* (budget, start, end)
ListedLimits(budget_cache) ==
    LET known == {h \in BudgetHistory : h.name \in DOMAIN budget_cache}
        attributes(h) ==
            [budget_id |-> Str(budget_cache[h.name].id), start |-> FormatDate(h.start),
             end |-> FormatDate(h.end),
             amount |-> Num(IF remote.budget_limits = "differs"
                            THEN h.amount + 1 ELSE h.amount)]
    IN  IF remote.budget_limits = "none" THEN EmptyMap
        ELSE [k \in {LimitKey(h) : h \in known} |->
                 Entity(attributes(CHOOSE h \in known : LimitKey(h) = k))]

LimitStep(h, listed, budget_cache) ==
    IF h.name \notin DOMAIN budget_cache THEN Step(TRUE, <<>>)
    ELSE IF LimitKey(h) \in DOMAIN listed
    THEN IF FireflyNeedsUpdate(LimitData(h, budget_cache), listed[LimitKey(h)])
         THEN Step(FALSE, <<Call("budget_limits", "PUT", LimitKey(h))>>)
         ELSE Step(FALSE, <<>>)
    ELSE Step(FALSE, <<Call("budget_limits", "POST", LimitKey(h))>>)

BudgetLimitsPass(cache, budget_cache) ==
    LET listed == ListedLimits(budget_cache)
        cached == InOrder(DOMAIN budget_cache)
        gets == [i \in 1..Len(cached) |-> Call("budget_limits", "GET", cached[i])]
        order == InOrder(BudgetHistory)
        steps == [i \in 1..Len(order) |-> LimitStep(order[i], listed, budget_cache)]
        made == {h \in BudgetHistory : LimitKey(h) \in Created(Plan(steps))}
    IN  IF skip_budget_limits_import \/ cache # EmptyMap THEN ReturnedEarly(cache)
        ELSE IF Raised(gets) THEN PassResult("HTTPError", cache, Issued(gets))
        ELSE PassResult(LoopError(steps),
                        [k \in DOMAIN listed \cup Created(Plan(steps)) |->
                            IF k \in DOMAIN listed THEN listed[k]
                            ELSE Entity(LimitData(CHOOSE h \in made : LimitKey(h) = k,
                                                  budget_cache))],
                        gets \o Issued(Plan(steps)))

-----------------------------------------------------------------------------
(* _create_asset_accounts *)

\* the "Starting Balance" row of an account (the last one, as the dictionary
\* comprehension keeps it)
StartingRow(account) ==
    LET at == {i \in 1..Len(all_transactions) :
                  /\ all_transactions[i].account = account
                  /\ all_transactions[i].payee = Plain("Starting Balance")}
    IN  all_transactions[CHOOSE i \in at : \A j \in at : j <= i]

\* the currency code whose id the request body of an account needs
AccountCurrency(account) ==
    IF AccCurrency(account) # "" THEN AccCurrency(account) ELSE ConfigCurrency

\* the request body for an asset account
AssetData(account, currency_cache) ==
    LET row == StartingRow(account)
        data == [name |-> Str(account), active |-> Bool(TRUE),
                 currency_id |-> Num(currency_cache[AccountCurrency(account)])]
    IN  IF row.inflow - row.outflow # 0
        THEN [k \in DOMAIN data \cup {"opening_balance", "opening_balance_date"} |->
                 IF k = "opening_balance" THEN Num(row.inflow - row.outflow)
                 ELSE IF k = "opening_balance_date" THEN Date(row.date)
                 ELSE data[k]]
        ELSE data

\* the attributes the remote holds for an account that it lists
AssetAttributes(account, currency_cache) ==
    LET row == StartingRow(account)
    IN  [name |-> Str(account), active |-> Bool(TRUE),
         currency_id |-> Num(CurrencyId(AccountCurrency(account))),
         opening_balance |-> Num(IF remote.asset_accounts = "differs"
                                 THEN row.inflow - row.outflow + 1
                                 ELSE row.inflow - row.outflow),
         opening_balance_date |-> FormatDate(row.date)]

AssetAccountNames == {asset_accounts[i] : i \in 1..Len(asset_accounts)}

ListedAssets(currency_cache) ==
    IF remote.asset_accounts = "none" THEN EmptyMap
    ELSE [a \in AssetAccountNames |-> Entity(AssetAttributes(a, currency_cache))]

AssetStep(account, listed, currency_cache) ==
    IF AccountCurrency(account) \notin DOMAIN currency_cache THEN Step(TRUE, <<>>)
    ELSE IF account \in DOMAIN listed
    THEN IF FireflyNeedsUpdate(AssetData(account, currency_cache), listed[account])
         THEN Step(FALSE, <<Call("asset_accounts", "PUT", account)>>)
         ELSE Step(FALSE, <<>>)
    ELSE Step(FALSE, <<Call("asset_accounts", "POST", account)>>)

AssetAccountsPass(cache, currency_cache) ==
    LET listed == ListedAssets(currency_cache)
        order == asset_accounts
        steps == [i \in 1..Len(order) |-> AssetStep(order[i], listed, currency_cache)]
        get == Call("asset_accounts", "GET", <<>>)
    IN  IF cache # EmptyMap THEN ReturnedEarly(cache)
        ELSE IF Fails("asset_accounts", "GET") THEN PassResult("HTTPError", cache, <<get>>)
        ELSE PassResult(LoopError(steps),
                        [a \in DOMAIN listed \cup Created(Plan(steps)) |->
                            IF a \in DOMAIN listed THEN listed[a]
                            ELSE Entity(AssetData(a, currency_cache))],
                        <<get>> \o Issued(Plan(steps)))

-----------------------------------------------------------------------------
(* _create_payee_accounts *)

\* The cache holds the remote's dictionary ("dict") for a listed account and
\* the id alone ("id") for a created one.
PayeeStep(account_type, account, listed) ==
    IF account \in listed
    THEN IF remote[account_type] = "differs"
         THEN Step(FALSE, <<Call(account_type, "PUT", account)>>)
         ELSE Step(FALSE, <<>>)
    ELSE Step(FALSE, <<Call(account_type, "POST", account)>>)

PayeeAccountsPass(account_type, cache) ==
    LET accounts == IF account_type = "revenue" THEN revenue_accounts ELSE expense_accounts
        listed == IF remote[account_type] = "none" THEN {} ELSE accounts
        order == InOrder(accounts)
        steps == [i \in 1..Len(order) |-> PayeeStep(account_type, order[i], listed)]
        get == Call(account_type, "GET", <<>>)
    IN  IF cache # EmptyMap THEN ReturnedEarly(cache)
        ELSE IF Fails(account_type, "GET") THEN PassResult("HTTPError", cache, <<get>>)
        ELSE PassResult(LoopError(steps),
                        [a \in listed \cup Created(Plan(steps)) |->
                            IF a \in listed THEN "dict" ELSE "id"],
                        <<get>> \o Issued(Plan(steps)))

-----------------------------------------------------------------------------
(* The cache file: _load_cache and _update_cache *)

\* FireflyData()
NoFireflyData ==
    [currencies |-> EmptyMap, categories |-> EmptyMap, budgets |-> EmptyMap,
     budget_limits |-> EmptyMap, asset_accounts |-> EmptyMap]

NoPayees == [kind \in {"revenue", "expense"} |-> EmptyMap]

\* .cache/firefly_data.json: absent, a JSON document, or the beginning of one
CacheFile(state, data, payees) == [state |-> state, data |-> data, payees |-> payees]

NoFile == CacheFile("absent", NoFireflyData, NoPayees)

TruncatedFile == CacheFile("truncated", NoFireflyData, NoPayees)

\* _update_cache: json.dump writes the fields in order and raises TypeError
\* at the first key that is a tuple, which every key of budget_limits is;
\* the file is left holding what was written before.
UpdateCache(data, payees) ==
    IF data.budget_limits # EmptyMap
    THEN [err |-> "TypeError", file |-> TruncatedFile]
    ELSE [err |-> "", file |-> CacheFile("json", data, payees)]

\* the steps of run() after the canonicalization, in order
RunOrder ==
    <<"load_cache", "currencies", "categories", "create_budgets", "budget_limits",
      "available_budgets", "asset_accounts", "revenue", "expense", "begin">>

\* a variant: the asset accounts before the budgets
AfterPassAssetsFirst(p) ==
    CASE p = "categories" -> "asset_accounts"
      [] p = "asset_accounts" -> IF "create_budgets" \in {passes[i] : i \in 1..Len(passes)}
                                 THEN "revenue" ELSE "create_budgets"
      [] p = "available_budgets" -> "asset_accounts"
      [] OTHER -> RunOrder[(CHOOSE i \in 1..Len(RunOrder) : RunOrder[i] = p) + 1]

\* the step run() enters when step p returns
AfterPass(p) ==
    RunOrder[(CHOOSE i \in 1..Len(RunOrder) : RunOrder[i] = p) + 1]

-----------------------------------------------------------------------------
(* _create_transactions *)

ImportedLimit == 200

GroupDate(g) == g.transactions[1].date

\* variant: a group dated at a bound is left out too
FilteredAtBound(g) ==
    \/ filter_max_date # 0 /\ GroupDate(g) >= filter_max_date
    \/ filter_min_date # 0 /\ GroupDate(g) <= filter_min_date

Filtered(g) ==
    \/ filter_max_date # 0 /\ GroupDate(g) > filter_max_date
    \/ filter_min_date # 0 /\ GroupDate(g) < filter_min_date

\* The exception building tx_data raises for a leg ("" if none): the payee
\* entry of a deposit or withdrawal is indexed with ["id"].
LegLookupError(leg) ==
    IF leg.type = "transfer" THEN ""
    ELSE LET kind == IF leg.type = "deposit" THEN "revenue" ELSE "expense"
         IN  IF leg.payee \notin DOMAIN firefly_payees[kind] THEN "KeyError"
             ELSE IF firefly_payees[kind][leg.payee] # "dict" THEN "TypeError"
             ELSE ""

GroupLookupError(g) ==
    LET bad == {k \in 1..Len(g.transactions) : LegLookupError(g.transactions[k]) # ""}
    IN  IF bad = {} THEN ""
        ELSE LegLookupError(g.transactions[CHOOSE k \in bad : \A j \in bad : k <= j])

\* tx_month as the loop computes it
TxMonth(groups, n) == MonthStart(GroupDate(groups[1]))

-----------------------------------------------------------------------------
(* Inputs *)

\* Rows for the canonicalization: transfers logged from either side, in both
\* payee shapes, split and unsplit rows, foreign-account rows, a zero row,
\* rows with a known, a hidden and an unknown budget.
RegisterRows ==
    { YNABTransaction("A", 101, TransferTo("B"), "", EmptyText, NoMemo, 50, 0, 50),
      YNABTransaction("B", 101, TransferTo("A"), "", EmptyText, NoMemo, 0, 50, 550),
      YNABTransaction("B", 101, CompositeTransferTo("Y", "A"), "", EmptyText, NoMemo, 50, 0, 450),
      YNABTransaction("A", 101, TransferTo("B"), "", EmptyText, SplitMemo, 50, 0, 50),
      YNABTransaction("A", 101, Plain("P"), "", EmptyText, NoMemo, 50, 0, 50),
      YNABTransaction("A", 101, Plain("P"), "", EmptyText, SplitMemo, 20, 0, 50),
      YNABTransaction("A", 101, Plain("P"), "", EmptyText, SplitMemo, 30, 0, 30),
      YNABTransaction("A", 201, Plain("P"), "Everyday", <<"Food">>, NoMemo, 0, 30, 80),
      YNABTransaction("A", 102, Plain("P"), "Hidden Categories", <<"Everyday", "Old", "1">>,
                      NoMemo, 10, 0, 40),
      YNABTransaction("A", 102, Plain("P"), "Everyday", <<"Nope">>, NoMemo, 10, 0, 40),
      YNABTransaction("A", 101, Plain("P"), "", EmptyText, NoMemo, 0, 0, 100),
      YNABTransaction("F", 101, Plain("P"), "", EmptyText, CurrencyMemo("EUR", 30), 0, 40, 140),
      YNABTransaction("F", 101, Plain("P"), "", EmptyText, NoMemo, 40, 0, 60),
      YNABTransaction("A", 101, TransferTo("F"), "", EmptyText, CurrencyMemo("EUR", 90), 50, 0, 50),
      YNABTransaction("F", 102, TransferTo("A"), "", EmptyText, CurrencyMemo("EUR", 60), 0, 50, 150) }

\* Rows for the replay against the remote: two months, a split group dated
\* after an unsplit row, a transfer.
SubmitRows ==
    { YNABTransaction("A", 101, Plain("P"), "", EmptyText, NoMemo, 50, 0, 50),
      YNABTransaction("A", 201, Plain("P"), "Everyday", <<"Food">>, NoMemo, 0, 30, 80),
      YNABTransaction("A", 102, Plain("P"), "", EmptyText, SplitMemo, 20, 0, 30),
      YNABTransaction("A", 102, Plain("P"), "", EmptyText, SplitMemo, 10, 0, 30),
      YNABTransaction("A", 101, TransferTo("B"), "", EmptyText, NoMemo, 50, 0, 50) }

\* (filter_min_date, filter_max_date); 0 is None
DateFilters == {<<0, 0>>, <<102, 102>>}

\* the state after Importer.__init__, for a register file and a pair of filters
InitOf(reg, bgs, fmin, fmax) ==
    /\ pc = "verify_connection"
    /\ connected = FALSE
    /\ error = ""
    /\ register = reg
    /\ all_budgets = bgs
    /\ all_transactions = <<>>
    /\ budgets = EmptyMap
    /\ categories = {}
    /\ revenue_accounts = {}
    /\ expense_accounts = {}
    /\ asset_accounts = <<>>
    /\ running_balances = EmptyMap
    /\ transaction_groups = <<>>
    /\ firefly_data = NoFireflyData
    /\ firefly_payees = NoPayees
    /\ calls = <<>>
    /\ passes = <<>>
    /\ firefly_balances = EmptyMap
    /\ filter_min_date = fmin
    /\ filter_max_date = fmax
    /\ idx = 0
    /\ current_month = 0
    /\ imported = 0
    /\ ignored = 0
    /\ posted = <<>>
    /\ response = NoResponse
    /\ verified = {}

\* the same with the budget file AllBudgets
InitFrom(reg, fmin, fmax) == InitOf(reg, AllBudgets, fmin, fmax)

\* what the run finds around it: the cache file, the remote, the failing
\* calls and config.skip_budget_limits_import
\* no call of get_all_pages is followed page by page
NoPaging ==
    [pc |-> "idle", listing |-> <<>>, first_listing |-> <<>>, drop_after |-> 0, params |-> 0,
     response |-> [data |-> <<>>, current_page |-> 0, total_pages |-> 0],
     all_response |-> <<>>, requests |-> <<>>]

Environment(file, world, failing, skip) ==
    /\ paging = NoPaging
    /\ cache_file = file
    /\ remote = world
    /\ fault = failing
    /\ skip_budget_limits_import = skip

\* no cache file, a remote that holds every entity but possibly the payee
\* accounts, no failing call, no budget limits
PlainEnvironment ==
    \E rev \in {"none", "same"} : \E exp \in {"none", "same"} :
        Environment(NoFile,
                    [RemoteWorld("same") EXCEPT !.revenue = rev, !.expense = exp],
                    NoFault, TRUE)
        /\ dry_run = FALSE

\* a register of the starting rows and up to MaxRows rows drawn from rows
InitWith(rows, filters) ==
    \E n \in 0..MaxRows :
        \E body \in [1..n -> rows] :
            \E f \in filters : InitFrom(StartingRows \o body, f[1], f[2])

Init == InitWith(SubmitRows, DateFilters) /\ PlainEnvironment

\* Rows for the checkpoint: both months, a foreign account, a transfer.
CheckpointRows ==
    { YNABTransaction("A", 201, Plain("P"), "Everyday", <<"Food">>, NoMemo, 0, 30, 80),
      YNABTransaction("F", 201, Plain("P"), "", EmptyText, NoMemo, 40, 0, 60),
      YNABTransaction("A", 101, TransferTo("B"), "", EmptyText, NoMemo, 50, 0, 50) }

SameEnvironment ==
    Environment(NoFile, RemoteWorld("same"), NoFault, TRUE) /\ dry_run = FALSE

InitCheckpoint == InitWith(CheckpointRows, {<<0, 0>>}) /\ SameEnvironment

InitCanon == InitWith(RegisterRows, {<<0, 0>>}) /\ SameEnvironment

\* Rows for the currency resolution: rows on foreign accounts with and
\* without a memo amount, with and without a fallback rate, and transfers
\* between default and foreign accounts in both directions (memo amounts at
\* and around the tolerance), between two accounts of one foreign currency
\* and between accounts of two foreign currencies.
CurrencyRows ==
    { YNABTransaction("F", 101, Plain("P"), "", EmptyText, CurrencyMemo("EUR", 30), 0, 40, 140),
      YNABTransaction("F", 101, Plain("P"), "", EmptyText, NoMemo, 40, 0, 60),
      YNABTransaction("F", 101, Plain("P"), "", EmptyText, CurrencyMemo("GBP", 30), 40, 0, 60),
      YNABTransaction("H", 101, Plain("P"), "", EmptyText, CurrencyMemo("GBP", 30), 40, 0, 60),
      YNABTransaction("H", 101, Plain("P"), "", EmptyText, NoMemo, 40, 0, 60),
      YNABTransaction("A", 101, TransferTo("F"), "", EmptyText, CurrencyMemo("EUR", 80), 50, 0, 50),
      YNABTransaction("A", 102, TransferTo("F"), "", EmptyText, CurrencyMemo("EUR", 79), 50, 0, 50),
      YNABTransaction("A", 103, TransferTo("F"), "", EmptyText, NoMemo, 50, 0, 50),
      YNABTransaction("F", 104, TransferTo("A"), "", EmptyText, CurrencyMemo("EUR", 30), 50, 0, 50),
      YNABTransaction("A", 105, TransferTo("F"), "", EmptyText, CurrencyMemo("EUR", 90), 0, 50, 150),
      YNABTransaction("F", 106, TransferTo("G"), "", EmptyText, CurrencyMemo("EUR", 50), 50, 0, 50),
      YNABTransaction("F", 107, TransferTo("H"), "", EmptyText, CurrencyMemo("EUR", 50), 50, 0, 50),
      YNABTransaction("A", 108, TransferTo("H"), "", EmptyText, CurrencyMemo("GBP", 70), 50, 0, 50),
      YNABTransaction("A", 109, TransferTo("B"), "", EmptyText, NoMemo, 50, 0, 50) }

InitCurrency == InitWith(CurrencyRows, {<<0, 0>>}) /\ SameEnvironment

\* Rows whose memo carries the thousands marker: a withdrawal from and a
\* deposit to a foreign account, transfers from a default-currency account
\* to a foreign one (logged from either side) and back, and the same rows
\* without the marker.
ThousandsRows ==
    { YNABTransaction("F", 101, Plain("P"), "", EmptyText, ThousandsMemo("EUR", 1), 40, 0, 60),
      YNABTransaction("H", 101, Plain("P"), "", EmptyText, ThousandsMemo("GBP", 2), 0, 40, 140),
      YNABTransaction("A", 102, TransferTo("H"), "", EmptyText, ThousandsMemo("GBP", 1), 50, 0, 50),
      YNABTransaction("H", 103, TransferTo("A"), "", EmptyText, ThousandsMemo("GBP", 3), 0, 50, 150),
      YNABTransaction("H", 104, TransferTo("A"), "", EmptyText, ThousandsMemo("GBP", 1), 50, 0, 50),
      YNABTransaction("F", 101, Plain("P"), "", EmptyText, CurrencyMemo("EUR", 30), 40, 0, 60),
      YNABTransaction("A", 102, TransferTo("H"), "", EmptyText, CurrencyMemo("GBP", 70), 50, 0, 50) }

InitThousands == InitWith(ThousandsRows, {<<0, 0>>}) /\ SameEnvironment

\* Rows of budget files: a budget in two months, a second budget, two hidden
\* ones, one of them hidden under a name another budget carries, a hidden row
\* without backticks, pre-YNAB rows (one of a name that is a budget's too),
\* and a master-category row without a sub category.
BudgetFileRows ==
    { YNABBudget(101, "Everyday:Food", "Everyday", <<"Food">>, 40),
      YNABBudget(201, "Everyday:Food", "Everyday", <<"Food">>, 50),
      YNABBudget(101, "Everyday:Rent", "Everyday", <<"Rent">>, 0),
      YNABBudget(101, "Hidden:Old", "Hidden Categories", <<"Everyday", "Old", "1">>, 0),
      YNABBudget(101, "Hidden:Food", "Hidden Categories", <<"Everyday", "Food", "2">>, 10),
      YNABBudget(101, "Hidden:Bad", "Hidden Categories", <<"Old">>, 0),
      YNABBudget(101, "Pre-YNAB Debt:Card", "Pre-YNAB Debt", <<"Card">>, 0),
      YNABBudget(101, "Pre-YNAB Debt:Loan", "Pre-YNAB Debt", <<"Rent">>, 0),
      YNABBudget(101, "Everyday", "Everyday", EmptyText, 0) }

InitBudgets ==
    /\ \E n \in 0..MaxRows :
          \E bgs \in [1..n -> BudgetFileRows] : InitOf(StartingRows, bgs, 0, 0)
    /\ SameEnvironment

\* A long register: as many unsplit rows of one month as the loop of
\* _create_transactions counts up to, or one more.
LongRegister(n) ==
    StartingRows \o
        [i \in 1..n |-> YNABTransaction("A", 101, Plain("P"), "", EmptyText, NoMemo, 1, 0, 100 - i)]

InitLong ==
    /\ \E n \in {ImportedLimit, ImportedLimit + 1} : InitFrom(LongRegister(n), 0, 0)
    /\ SameEnvironment

\* A register for the reconciliation: a withdrawal and a deposit of one month.
SyncRegister ==
    StartingRows \o
        << YNABTransaction("A", 101, Plain("P"), "", EmptyText, NoMemo, 50, 0, 50),
           YNABTransaction("A", 102, Plain("Q"), "Everyday", <<"Food">>, NoMemo, 0, 30, 80) >>

\* the document a run over SyncRegister that reaches the transactions leaves
CompletedFile ==
    CacheFile("json",
              [currencies |-> [c \in CurrencyCodes |-> CurrencyId(c)],
               categories |-> [c \in ProcessedCategories |-> "id"],
               budgets |-> [n \in DOMAIN ProcessedBudgets |->
                               Entity([name |-> Str(n), active |-> Bool(ProcessedBudgets[n])])],
               budget_limits |-> EmptyMap,
               asset_accounts |-> [a \in AccountNames(SyncRegister) |->
                                      Entity([name |-> Str(a)])]],
              [kind \in {"revenue", "expense"} |->
                  [a \in (IF kind = "revenue" THEN RevenueAccounts(SyncRegister)
                          ELSE ExpenseAccounts(SyncRegister)) |-> "dict"]])

\* the document of a run that ended after the currencies
PartialFile ==
    CacheFile("json", [NoFireflyData EXCEPT !.currencies = CompletedFile.data.currencies],
              NoPayees)

\* The document of an earlier run, made with another export against a
\* remote that held fewer currencies and listed its budgets as inactive: it
\* misses a category, a budget, accounts and payees of this export, and
\* holds the budgets as they were listed.
StaleFile ==
    CacheFile("json",
              [currencies |-> [c \in {"USD", "EUR"} |-> CurrencyId(c)],
               categories |-> [c \in SyntheticBudgets |-> "id"],
               budgets |-> [n \in SyntheticBudgets |->
                               Entity([name |-> Str(n), active |-> Bool(FALSE)])],
               budget_limits |-> EmptyMap,
               asset_accounts |-> [a \in {"A"} |-> Entity([name |-> Str(a)])]],
              [kind \in {"revenue", "expense"} |->
                  IF kind = "revenue" THEN EmptyMap ELSE [a \in {"Z"} |-> "dict"]])

\* the same currencies, and nothing else
StaleCurrenciesFile ==
    CacheFile("json", [NoFireflyData EXCEPT !.currencies = StaleFile.data.currencies],
              NoPayees)

CacheFiles ==
    {NoFile, TruncatedFile, CompletedFile, PartialFile, StaleFile, StaleCurrenciesFile}

Worlds == {"none", "same", "differs"}

Passes ==
    {"currencies", "categories", "budgets", "budget_limits", "asset_accounts",
     "revenue", "expense"}

Faults ==
    {NoFault} \cup
    {[pass |-> p, method |-> m, status |-> st] :
        p \in Passes, m \in {"GET", "POST", "PUT"}, st \in {500, 503, 422}}
    \cup {[pass |-> "verify_connection", method |-> "GET", status |-> 401]}

\* Rows for the dry run: a withdrawal, a transfer, and a row on a
\* foreign-currency account with neither a memo amount nor a fallback rate.
DryRunRows ==
    { YNABTransaction("A", 101, Plain("P"), "", EmptyText, NoMemo, 50, 0, 50),
      YNABTransaction("A", 101, TransferTo("B"), "", EmptyText, NoMemo, 50, 0, 50),
      YNABTransaction("H", 101, Plain("P"), "", EmptyText, NoMemo, 40, 0, 60) }

\* a dry run with or without a cache file and with or without a remote that
\* answers, or a run that is not dry
InitDryRun ==
    /\ InitWith(DryRunRows, {<<0, 0>>})
    /\ \/ /\ dry_run = TRUE
          /\ \E file \in {NoFile, StaleFile} :
                \E failing \in {NoFault, [pass |-> "verify_connection",
                                          method |-> "GET", status |-> 401]} :
                    Environment(file, RemoteWorld("none"), failing, FALSE)
       \/ SameEnvironment

InitSync ==
    /\ InitFrom(SyncRegister, 0, 0)
    /\ \E file \in CacheFiles : \E w \in Worlds : \E failing \in Faults :
          \E skip \in BOOLEAN : Environment(file, RemoteWorld(w), failing, skip)
    /\ dry_run = FALSE

-----------------------------------------------------------------------------
(* Importer.run, step by step *)

dataVars == <<budgets, categories, revenue_accounts, expense_accounts,
              asset_accounts, running_balances, transaction_groups>>

remoteVars == <<firefly_payees, firefly_balances, idx, current_month, imported,
                ignored, posted, response, verified>>

inputVars == <<register, all_budgets, filter_min_date, filter_max_date, remote,
               fault, skip_budget_limits_import>>

syncVars == <<firefly_data, cache_file, calls, passes>>

modeVars == <<dry_run, connected>>

\* variant: the connection is verified in a dry run too
VerifyConnectionAlways ==
    /\ pc = "verify_connection"
    /\ connected' = TRUE
    /\ IF Fails("verify_connection", "GET")
       THEN pc' = "aborted" /\ error' = "HTTPError"
       ELSE pc' = "read" /\ UNCHANGED error
    /\ UNCHANGED <<all_transactions, dataVars, remoteVars, inputVars, syncVars, dry_run,
                   paging>>

\* run() up to _read_ynab_data: _verify_connection, unless the run is dry
VerifyConnection ==
    /\ pc = "verify_connection"
    /\ IF dry_run
       THEN pc' = "read" /\ UNCHANGED <<error, connected>>
       ELSE /\ connected' = TRUE
            /\ IF Fails("verify_connection", "GET")
               THEN pc' = "aborted" /\ error' = "HTTPError"
               ELSE pc' = "read" /\ UNCHANGED error
    /\ UNCHANGED <<all_transactions, dataVars, remoteVars, inputVars, syncVars, dry_run,
                   paging>>

ReadYnabData ==
    /\ pc = "read"
    /\ all_transactions' = SortedRows(register)
    /\ pc' = "budgets"
    /\ UNCHANGED <<error, dataVars, remoteVars, inputVars, modeVars, paging, syncVars>>

\* _process_budgets; _budget raises IndexError on a hidden row whose budget
\* field holds no backtick, after the categories were set
ProcessBudgets ==
    /\ pc = "budgets"
    /\ categories' = ProcessedCategories
    /\ IF \E b \in BudgetRows : ~IsPreYnab(b) /\ ~Budget(b).ok
       THEN pc' = "aborted" /\ error' = "IndexError" /\ UNCHANGED budgets
       ELSE pc' = "accounts" /\ budgets' = ProcessedBudgets /\ UNCHANGED error
    /\ UNCHANGED <<all_transactions, revenue_accounts, expense_accounts,
                   asset_accounts, running_balances, transaction_groups,
                   remoteVars, inputVars, modeVars, paging, syncVars>>

ProcessAccounts ==
    /\ pc = "accounts"
    /\ IF ~(ConfigAccounts \subseteq AccountNames(all_transactions))
       THEN /\ pc' = "aborted" /\ error' = "AssertionError"
            /\ UNCHANGED <<asset_accounts, revenue_accounts, expense_accounts>>
       ELSE IF ~(AccountNames(all_transactions)
                    \subseteq StartingBalanceAccounts(all_transactions))
       THEN /\ pc' = "aborted" /\ error' = "KeyError"
            /\ UNCHANGED <<asset_accounts, revenue_accounts, expense_accounts>>
       ELSE /\ asset_accounts' = InOrder(AccountNames(all_transactions))
            /\ revenue_accounts' = RevenueAccounts(all_transactions)
            /\ expense_accounts' = ExpenseAccounts(all_transactions)
            /\ pc' = "transactions"
            /\ UNCHANGED error
    /\ UNCHANGED <<all_transactions, budgets, categories, running_balances,
                   transaction_groups, remoteVars, inputVars, modeVars, paging, syncVars>>

ProcessTransactions ==
    /\ pc = "transactions"
    /\ running_balances' =
          RunningBalances(all_transactions, 1, Len(all_transactions), EmptyMap)
    /\ LET r == ProcessedTransactions(all_transactions)
       IN  /\ transaction_groups' = r.groups
           /\ error' = r.err
           /\ pc' = IF r.err # "" THEN "aborted"
                    ELSE IF dry_run THEN "done" ELSE "load_cache"
    /\ UNCHANGED <<all_transactions, budgets, categories, revenue_accounts,
                   expense_accounts, asset_accounts, remoteVars, inputVars, modeVars, paging, syncVars>>

\* _load_cache
LoadCache ==
    /\ pc = "load_cache"
    /\ passes' = Append(passes, "load_cache")
    /\ CASE cache_file.state = "absent" ->
               /\ pc' = AfterPass("load_cache")
               /\ UNCHANGED <<error, firefly_data, firefly_payees>>
         [] cache_file.state = "truncated" ->
               /\ pc' = "aborted"
               /\ error' = "JSONDecodeError"
               /\ UNCHANGED <<firefly_data, firefly_payees>>
         [] OTHER ->
               /\ firefly_data' = cache_file.data
               /\ firefly_payees' = cache_file.payees
               /\ pc' = AfterPass("load_cache")
               /\ UNCHANGED error
    /\ UNCHANGED <<all_transactions, dataVars, cache_file, calls, firefly_balances,
                   idx, current_month, imported, ignored, posted, response,
                   verified, inputVars, modeVars, paging>>

\* What a pass leaves: the caches as it filled them, its calls, and either
\* its exception or, unless it returned at its cache check, the cache file
\* rewritten by _update_cache.
PassEnds(p, r, data, payees) ==
    /\ passes' = Append(passes, p)
    /\ calls' = calls \o r.calls
    /\ firefly_data' = data
    /\ firefly_payees' = payees
    /\ IF r.err # ""
       THEN pc' = "aborted" /\ error' = r.err /\ UNCHANGED cache_file
       ELSE IF r.returned_early
       THEN pc' = AfterPass(p) /\ UNCHANGED <<error, cache_file>>
       ELSE /\ cache_file' = UpdateCache(data, payees).file
            /\ error' = UpdateCache(data, payees).err
            /\ pc' = IF UpdateCache(data, payees).err = "" THEN AfterPass(p)
                     ELSE "aborted"
    /\ UNCHANGED <<all_transactions, dataVars, firefly_balances, idx, current_month,
                   imported, ignored, posted, response, verified, inputVars, modeVars, paging>>

CreateCurrencies ==
    /\ pc = "currencies"
    /\ LET r == CurrenciesPass(firefly_data.currencies)
       IN  PassEnds("currencies", r, [firefly_data EXCEPT !.currencies = r.cache],
                    firefly_payees)

CreateCategories ==
    /\ pc = "categories"
    /\ LET r == CategoriesPass(firefly_data.categories)
       IN  PassEnds("categories", r, [firefly_data EXCEPT !.categories = r.cache],
                    firefly_payees)

CreateBudgets ==
    /\ pc = "create_budgets"
    /\ LET r == BudgetsPass(firefly_data.budgets)
       IN  PassEnds("create_budgets", r, [firefly_data EXCEPT !.budgets = r.cache],
                    firefly_payees)

CreateBudgetLimits ==
    /\ pc = "budget_limits"
    /\ LET r == BudgetLimitsPass(firefly_data.budget_limits, firefly_data.budgets)
       IN  PassEnds("budget_limits", r, [firefly_data EXCEPT !.budget_limits = r.cache],
                    firefly_payees)

\* _create_available_budgets prints a message
CreateAvailableBudgets ==
    /\ pc = "available_budgets"
    /\ passes' = Append(passes, "available_budgets")
    /\ pc' = AfterPass("available_budgets")
    /\ UNCHANGED <<error, all_transactions, dataVars, remoteVars, inputVars, modeVars, paging,
                   firefly_data, cache_file, calls>>

CreateAssetAccounts ==
    /\ pc = "asset_accounts"
    /\ LET r == AssetAccountsPass(firefly_data.asset_accounts, firefly_data.currencies)
       IN  PassEnds("asset_accounts", r,
                    [firefly_data EXCEPT !.asset_accounts = r.cache], firefly_payees)

CreatePayeeAccounts(account_type) ==
    /\ pc = account_type
    /\ LET r == PayeeAccountsPass(account_type, firefly_payees[account_type])
       IN  PassEnds(account_type, r, firefly_data,
                    [firefly_payees EXCEPT ![account_type] = r.cache])

\* _create_transactions up to the loop
BeginCreateTransactions ==
    /\ pc = "begin"
    /\ IF transaction_groups = <<>>
       THEN /\ pc' = "aborted" /\ error' = "IndexError"
            /\ UNCHANGED current_month
       ELSE /\ current_month' = MonthStart(GroupDate(transaction_groups[1]))
            /\ pc' = "create"
            /\ UNCHANGED error
    /\ UNCHANGED <<all_transactions, dataVars, firefly_payees, firefly_balances,
                   idx, imported, ignored, posted, response, verified, inputVars, modeVars, paging, syncVars>>

\* One pass of the loop of _create_transactions, for group idx + 1
CreateTransactionsStep ==
    /\ pc = "create"
    /\ idx < Len(transaction_groups)
    /\ LET g == transaction_groups[idx + 1]
           tx_month == TxMonth(transaction_groups, idx + 1)
       IN  IF tx_month # current_month
           THEN \* the checkpoint, then the unconditional raise
                /\ \E fb \in RemoteBalances(current_month) :
                      /\ firefly_balances' = fb
                      /\ current_month' =
                            IF BalanceMismatch(current_month, fb)
                            THEN current_month ELSE tx_month
                /\ verified' = verified \cup {current_month}
                /\ pc' = "aborted"
                /\ error' = "ValueError"
                /\ UNCHANGED <<idx, imported, ignored, posted, response>>
           ELSE IF Filtered(g)
           THEN /\ ignored' = ignored + 1
                /\ idx' = idx + 1
                /\ UNCHANGED <<pc, error, firefly_balances, current_month,
                               imported, posted, response, verified>>
           ELSE IF GroupLookupError(g) # ""
           THEN /\ pc' = "aborted"
                /\ error' = GroupLookupError(g)
                /\ UNCHANGED <<firefly_balances, current_month, idx, imported,
                               ignored, posted, response, verified>>
           ELSE \E resp \in Responses :
                /\ posted' = Append(posted, idx + 1)
                /\ response' = resp
                /\ IF SubmissionError(resp) # ""
                   THEN /\ pc' = "aborted"
                        /\ error' = SubmissionError(resp)
                        /\ UNCHANGED <<idx, imported>>
                   ELSE /\ imported' = imported + 1
                        /\ IF imported + 1 > ImportedLimit
                           THEN pc' = "aborted" /\ error' = "ValueError"
                                /\ UNCHANGED idx
                           ELSE idx' = idx + 1 /\ UNCHANGED <<pc, error>>
                /\ UNCHANGED <<firefly_balances, current_month, ignored, verified>>
    /\ UNCHANGED <<all_transactions, dataVars, firefly_payees, inputVars, modeVars, paging, syncVars>>

\* the loop is exhausted
FinishCreateTransactions ==
    /\ pc = "create"
    /\ idx = Len(transaction_groups)
    /\ pc' = "done"
    /\ UNCHANGED <<error, all_transactions, dataVars, remoteVars, inputVars, modeVars, paging, syncVars>>

\* _verify_running_balance(month), called between two passes of the loop for
\* a month of the export: the re-fetch, then the comparison.
VerifyRunningBalance ==
    /\ pc = "create"
    /\ \E m \in DOMAIN running_balances :
          \E fb \in RemoteBalances(m[1]) :
             /\ firefly_balances' = fb
             /\ verified' = verified \cup {m[1]}
             /\ IF BalanceMismatch(m[1], fb)
                THEN pc' = "aborted" /\ error' = "ValueError"
                ELSE UNCHANGED <<pc, error>>
    /\ UNCHANGED <<all_transactions, dataVars, firefly_payees, idx, current_month,
                   imported, ignored, posted, response, inputVars, modeVars, paging, syncVars>>

Canonicalize ==
    \/ ReadYnabData
    \/ ProcessBudgets
    \/ ProcessAccounts
    \/ ProcessTransactions

Reconcile ==
    \/ LoadCache
    \/ CreateCurrencies
    \/ CreateCategories
    \/ CreateBudgets
    \/ CreateBudgetLimits
    \/ CreateAvailableBudgets
    \/ CreateAssetAccounts
    \/ CreatePayeeAccounts("revenue")
    \/ CreatePayeeAccounts("expense")

Next ==
    \/ VerifyConnection
    \/ Canonicalize
    \/ Reconcile
    \/ BeginCreateTransactions
    \/ CreateTransactionsStep
    \/ FinishCreateTransactions

Spec == Init /\ [][Next]_vars

\* canonicalization alone, over the wider set of rows
SpecCanon == InitCanon /\ [][VerifyConnection \/ Canonicalize]_vars

SpecThousands == InitThousands /\ [][VerifyConnection \/ Canonicalize]_vars

SpecBudgets == InitBudgets /\ [][VerifyConnection \/ Canonicalize]_vars

\* canonicalization alone, over the rows for the currency resolution
SpecCurrency == InitCurrency /\ [][VerifyConnection \/ Canonicalize]_vars

\* the run, dry or not
SpecDryRun == InitDryRun /\ [][Next]_vars

\* the run over one register, in every environment
SpecSync == InitSync /\ [][Next]_vars

\* the run over a long register
SpecLong == InitLong /\ [][Next]_vars

\* the run, with the checkpoint routine applied to the months of the export
SpecCheckpoint == InitCheckpoint /\ [][Next \/ VerifyRunningBalance]_vars

-----------------------------------------------------------------------------
(* FireflySession.get_all_pages, request by request.  The remote holds the
   listing as a sequence of pages, an empty listing as one empty page; it
   answers a request for page p with the data of that page (none beyond
   the last), current_page = p and total_pages = the number of pages it holds
   at that moment.  The listing may lose its last page to another client
   once, after the drop_after-th request (0: never); first_listing is the
   listing as the first request found it. *)

MaxPages == 3

MaxRequests == 6

PageContents == {<<"a">>, <<"b", "c">>, <<"d", "e">>}

\* the empty listing, and the listings of one to MaxPages pages
Listings == {<< <<>> >>} \cup UNION {[1..n -> PageContents] : n \in 1..MaxPages}

\* the remote's answer to GET url?page=p; p = 0 is a request without params
Served(listing, p) ==
    LET q == IF p = 0 THEN 1 ELSE p
    IN  [data |-> IF q <= Len(listing) THEN listing[q] ELSE <<>>,
         current_page |-> q,
         total_pages |-> Len(listing)]

\* the listing after the n-th request was answered
ListingAfter(pg, n) ==
    IF n = pg.drop_after /\ Len(pg.listing) > 1
    THEN SubSeq(pg.listing, 1, Len(pg.listing) - 1)
    ELSE pg.listing

\* the request sent with params, its answer appended to all_response
Request(pg, params) ==
    LET answer == Served(pg.listing, params)
    IN  [pg EXCEPT !.pc = "loop",
                   !.params = params,
                   !.response = answer,
                   !.all_response = pg.all_response \o answer.data,
                   !.requests = Append(pg.requests, answer.current_page),
                   !.listing = ListingAfter(pg, Len(pg.requests) + 1)]

\* response = self.get(url, params=params); all_response = {"data": ...}
GetFirstPage ==
    /\ paging.pc = "call"
    /\ paging' = Request(paging, 0)
    /\ UNCHANGED <<pc, error, all_transactions, dataVars, remoteVars, inputVars,
                   modeVars, syncVars>>

\* one pass of the while loop: current_page != total_pages
GetNextPage ==
    /\ paging.pc = "loop"
    /\ paging.response.current_page # paging.response.total_pages
    /\ Len(paging.requests) < MaxRequests
    /\ paging' = Request(paging, paging.response.current_page + 1)
    /\ UNCHANGED <<pc, error, all_transactions, dataVars, remoteVars, inputVars,
                   modeVars, syncVars>>

\* return all_response
ReturnAllPages ==
    /\ paging.pc = "loop"
    /\ paging.response.current_page = paging.response.total_pages
    /\ paging' = [paging EXCEPT !.pc = "returned"]
    /\ UNCHANGED <<pc, error, all_transactions, dataVars, remoteVars, inputVars,
                   modeVars, syncVars>>

GetAllPages == GetFirstPage \/ GetNextPage \/ ReturnAllPages

InitPages ==
    /\ InitFrom(StartingRows, 0, 0)
    /\ cache_file = NoFile
    /\ remote = RemoteWorld("same")
    /\ fault = NoFault
    /\ skip_budget_limits_import = TRUE
    /\ dry_run = FALSE
    /\ \E listing \in Listings :
          \E drop_after \in 0..MaxPages :
              paging = [NoPaging EXCEPT !.pc = "call", !.listing = listing,
                                         !.first_listing = listing,
                                         !.drop_after = drop_after]

SpecPages == InitPages /\ [][GetAllPages]_vars /\ WF_vars(GetAllPages)

-----------------------------------------------------------------------------
(* Vocabulary of the properties *)

Canonicalized ==
    pc \in {RunOrder[i] : i \in 1..Len(RunOrder)} \cup {"create", "done"}

GroupIndices == 1..Len(transaction_groups)

LegsOf(g) == {transaction_groups[g].transactions[k] :
                 k \in 1..Len(transaction_groups[g].transactions)}

AllLegs == UNION {LegsOf(g) : g \in GroupIndices}

SourceRow(leg) == all_transactions[leg.src]

\* inflow minus outflow over the rows of a group
RECURSIVE NetOfLegs(_, _)
NetOfLegs(legs, k) ==
    IF k = 0 THEN 0
    ELSE NetOfLegs(legs, k - 1)
            + SourceRow(legs[k]).inflow - SourceRow(legs[k]).outflow

GroupNet(g) ==
    NetOfLegs(transaction_groups[g].transactions,
              Len(transaction_groups[g].transactions))

\* the rows in the order the loops of _process_transactions take them
RECURSIVE Flatten(_, _)
Flatten(grouped, n) ==
    IF n > Len(grouped) THEN <<>> ELSE grouped[n] \o Flatten(grouped, n + 1)

ProcessingOrder == Flatten(AllTxGrouped(all_transactions), 1)

\* the pairing key of a transfer row: account pair, date, absolute amount
PairingKey(tx) ==
    <<{tx.account, TransferAccount(tx)}, tx.date, Abs(tx.outflow - tx.inflow)>>

TransferRows ==
    {i \in 1..Len(all_transactions) :
        ~Removed(all_transactions[i]) /\ IsTransfer(all_transactions[i])}

Emitted(i) == \E leg \in AllLegs : leg.src = i

-----------------------------------------------------------------------------
(* C1: the groups are submitted in chronological order, groups of one date by
   descending net amount (inflow minus outflow), for every input, split rows
   included. *)
C1_ChronologicalSubmission ==
    \A n \in 1..(Len(posted) - 1) :
        LET a == transaction_groups[posted[n]]
            b == transaction_groups[posted[n + 1]]
        IN  /\ GroupDate(a) <= GroupDate(b)
            /\ GroupDate(a) = GroupDate(b) => GroupNet(posted[n]) >= GroupNet(posted[n + 1])

(* C2: no group dated in a later month is submitted before the balance
   checkpoint of every earlier month that has groups has run. *)
C2_CheckpointBeforeNextMonth ==
    \A n \in 1..Len(posted) :
        \A h \in GroupIndices :
            MonthStart(GroupDate(transaction_groups[h]))
                    < MonthStart(GroupDate(transaction_groups[posted[n]]))
                => MonthStart(GroupDate(transaction_groups[h])) \in verified

(* C3: a checkpoint aborts the run exactly when some non-foreign account's
   recorded balance for the month differs from the remote's balance (a
   difference on a foreign account alone does not abort, a full match raises
   nothing), and after the abort no group is submitted. *)
C3_CheckpointMismatchAborts ==
    [][ /\ (verified' # verified) =>
              LET m == CHOOSE x \in verified' : x \notin verified
                  recorded == running_balances[<<m>>]
                  differs == {a \in DOMAIN recorded : recorded[a] # firefly_balances'[a]}
              IN  /\ (\E a \in differs : AccCurrency(a) \in {"", ConfigCurrency})
                        => pc' = "aborted" /\ error' = "ValueError"
                  /\ (\A a \in differs : AccCurrency(a) \notin {"", ConfigCurrency})
                        => pc' = pc /\ error' = error
        /\ pc = "aborted" => posted' = posted ]_vars

C3_Witness ==
    /\ pc = "aborted"
    /\ error = "ValueError"
    /\ posted # <<>>
    /\ \E m \in verified :
          \E a \in DOMAIN running_balances[<<m>>] :
             a # "F" /\ running_balances[<<m>>][a] # firefly_balances[a]

\* rows i and j are the two sides of one transfer, and no other row has their key
C4_Pair(i, j) ==
    LET a == all_transactions[i]
        b == all_transactions[j]
    IN  /\ i # j
        /\ a.account = TransferAccount(b)
        /\ b.account = TransferAccount(a)
        /\ a.account # b.account
        /\ PairingKey(a) = PairingKey(b)
        /\ \A k \in TransferRows \ {i, j} :
              PairingKey(all_transactions[k]) # PairingKey(a)

(* C4: two transfer rows that share the pairing key, one logged from each
   account's side, yield exactly one Transfer leg, whichever row carries the
   inflow and whichever is processed first; when one row carries the outflow,
   the leg goes from that row's account to the other one, with that amount. *)
C4_OneLegPerPair ==
    Canonicalized =>
        \A i, j \in TransferRows :
            C4_Pair(i, j) =>
                LET legs == {leg \in AllLegs : leg.src \in {i, j}}
                    a == all_transactions[i]
                    b == all_transactions[j]
                IN  /\ Cardinality(legs) = 1
                    /\ \A leg \in legs :
                          /\ leg.type = "transfer"
                          /\ (a.outflow > 0 /\ b.inflow > 0) =>
                                /\ leg.from_account = a.account
                                /\ leg.to_account = b.account
                                /\ ~IsForeign(a.account) => leg.amount = a.outflow

\* the pair of the spec's example, the inflow row taken first
C4_Witness ==
    /\ Canonicalized
    /\ \E i, j \in TransferRows :
          /\ C4_Pair(i, j)
          /\ all_transactions[i].outflow > 0
          /\ all_transactions[j].inflow > 0
          /\ Emitted(j)

\* k such that the row at position p is the k-th transfer row of its key
C5_Occurrence(p) ==
    Cardinality({q \in 1..p :
        /\ ProcessingOrder[q] \in TransferRows
        /\ PairingKey(all_transactions[ProcessingOrder[q]])
              = PairingKey(all_transactions[ProcessingOrder[p]])})

(* C5: over the processing order (split groups first, then the other rows),
   the k-th transfer row seen for a pairing key yields a Transfer leg if and
   only if k is odd. *)
C5_AlternateKeepDiscard ==
    Canonicalized =>
        \A p \in 1..Len(ProcessingOrder) :
            ProcessingOrder[p] \in TransferRows =>
                (Emitted(ProcessingOrder[p]) <=> C5_Occurrence(p) % 2 = 1)

C5_Witness ==
    /\ Canonicalized
    /\ \E p \in 1..Len(ProcessingOrder) :
          /\ ProcessingOrder[p] \in TransferRows
          /\ C5_Occurrence(p) = 3
          /\ Emitted(ProcessingOrder[p])

\* X of "Transfer : X" and of "Y / Transfer : X"
C6_CounterAccount(tx) ==
    IF Len(tx.payee) = 1 THEN tx.payee[1][2] ELSE tx.payee[Len(tx.payee)][2]

(* C6: a Transfer leg goes from the account that had the outflow: built from
   a row with outflow > 0 it goes from the row's account to the counter
   account its payee names (in either payee shape); built from a row with
   inflow > 0 and no outflow it goes from the counter account to the row's
   account, the row being rewritten with outflow and inflow swapped and the
   running balance set to -1. *)
C6_FromAccountHasOutflow ==
    Canonicalized =>
        /\ \A leg \in AllLegs :
              leg.type = "transfer" =>
                 LET tx == SourceRow(leg)
                 IN  IF tx.outflow > 0
                     THEN /\ leg.from_account = tx.account
                          /\ leg.to_account = C6_CounterAccount(tx)
                     ELSE /\ leg.from_account = C6_CounterAccount(tx)
                          /\ leg.to_account = tx.account
                          /\ ~IsForeign(leg.from_account) => leg.amount = tx.inflow
        /\ \A i \in TransferRows :
              LET tx == all_transactions[i]
                  fixed == CorrectTransferToFrom(tx)
              IN  (tx.inflow > 0 /\ tx.outflow = 0) =>
                     /\ fixed.outflow = tx.inflow
                     /\ fixed.inflow = 0
                     /\ fixed.running_balance = -1
                     /\ fixed.account = C6_CounterAccount(tx)
                     /\ fixed.payee = Plain(tx.account)

C6_Witness ==
    /\ Canonicalized
    /\ \E leg \in AllLegs :
          /\ leg.type = "transfer"
          /\ SourceRow(leg).inflow > 0
          /\ leg.to_account = SourceRow(leg).account
    /\ \E leg \in AllLegs :
          /\ leg.type = "transfer"
          /\ Len(SourceRow(leg).payee) = 2
          /\ leg.from_account = SourceRow(leg).account

(* C7: every leg has a strictly positive amount, on default-currency and on
   foreign-currency accounts; a row that is no transfer becomes a Withdrawal
   exactly when its outflow is nonzero and a Deposit exactly when its inflow
   is nonzero. *)
C7_PositiveAmounts ==
    Canonicalized =>
        \A leg \in AllLegs :
            /\ leg.amount > 0
            /\ leg.type = "withdrawal" <=>
                  (~IsTransfer(SourceRow(leg)) /\ SourceRow(leg).outflow # 0)
            /\ leg.type = "deposit" <=>
                  (~IsTransfer(SourceRow(leg)) /\ SourceRow(leg).inflow # 0)

C8_IsSplit(leg) == SourceRow(leg).memo.split

C8_Triple(leg) ==
    <<SourceRow(leg).account, SourceRow(leg).date, SourceRow(leg).running_balance>>

(* C8: the split rows that share (account, date, running balance) are in one
   group and rows with different triples never share a group; every split
   group comes before every group of an unsplit row. *)
C8_SplitGroupsFirst ==
    Canonicalized =>
        \A g, h \in GroupIndices :
            \A x \in LegsOf(g) : \A y \in LegsOf(h) :
                /\ (C8_IsSplit(x) /\ C8_IsSplit(y)) =>
                      (C8_Triple(x) = C8_Triple(y) <=> g = h)
                /\ (C8_IsSplit(x) /\ ~C8_IsSplit(y)) => g < h

C8_Witness ==
    /\ Canonicalized
    /\ \E g, h \in GroupIndices :
          /\ g < h
          /\ \E x, y \in LegsOf(g) : x # y /\ C8_IsSplit(x) /\ C8_IsSplit(y)
          /\ \E y \in LegsOf(h) : ~C8_IsSplit(y) /\ C8_Triple(y) \in {C8_Triple(x) : x \in LegsOf(g)}

\* a 422 in which every item is one per-leg duplicate message
C9_AllDuplicates(resp) ==
    /\ resp.status = 422
    /\ \A n \in 1..Len(resp.errors) :
          /\ resp.errors[n].field = "transactions"
          /\ Len(resp.errors[n].messages) = 1
          /\ resp.errors[n].messages[1].dup

(* C9: a submission rejected with 422 in which every reported error is a
   single per-leg duplicate message counts as success: nothing propagates,
   the imported counter goes up by one, the group is not submitted again and
   the loop goes on to the next group. *)
C9_DuplicateIsSuccess ==
    [][ posted' # posted =>
          /\ posted' = Append(posted, idx + 1)
          /\ \A n \in 1..Len(posted) : posted[n] # idx + 1
          /\ C9_AllDuplicates(response') =>
                /\ pc' = "create"
                /\ error' = ""
                /\ imported' = imported + 1
                /\ idx' = idx + 1 ]_vars

\* a failure that carries something other than per-leg duplicate messages
C10_Fatal(resp) ==
    \/ resp.status \notin {200, 422}
    \/ /\ resp.status = 422
       /\ \E n \in 1..Len(resp.errors) :
             \/ resp.errors[n].field # "transactions"
             \/ Len(resp.errors[n].messages) # 1
             \/ ~resp.errors[n].messages[1].dup

(* C10: a submission that fails with a per-leg error that is no duplicate
   message, with a top-level error, or with a status other than 422 aborts
   the run: the error propagates, the imported counter is not incremented
   and no later group is submitted. *)
C10_OtherErrorsAbort ==
    [][ /\ (posted' # posted /\ C10_Fatal(response')) =>
              /\ pc' = "aborted"
              /\ error' # ""
              /\ imported' = imported
        /\ pc = "aborted" => posted' = posted ]_vars

C10_Witness ==
    /\ pc = "aborted"
    /\ Len(posted) = 2
    /\ imported = 1
    /\ response.status = 422
    /\ \E n \in 1..Len(response.errors) : response.errors[n].field # "transactions"
    /\ \E n \in 1..Len(response.errors) :
          response.errors[n].field = "transactions" /\ response.errors[n].messages[1].dup

\* the rows the loops of _process_transactions take
C15_Rows == {i \in 1..Len(all_transactions) : ~Removed(all_transactions[i])}

(* C15: canonicalization ends without an exception only if every row's
   budget, when not empty, is a known budget and every row's category, when
   not empty, is a known category; and every Withdrawal or Deposit leg has a
   known budget or none and a known category or none. *)
C15_UnknownBudgetOrCategoryAborts ==
    Canonicalized =>
        /\ \A i \in C15_Rows :
              LET tx == all_transactions[i]
              IN  /\ Budget(tx).ok
                  /\ Budget(tx).name = EmptyText \/ Budget(tx).name \in DOMAIN budgets
                  /\ Category(tx) = EmptyText \/ Category(tx) \in categories
        /\ \A leg \in AllLegs :
              leg.type # "transfer" =>
                 /\ leg.budget = EmptyText \/ leg.budget \in DOMAIN budgets
                 /\ leg.category = EmptyText \/ leg.category \in categories

\* the foreign-currency account of a transfer row between a foreign and a
\* default-currency account ("" when the row is no such transfer)
C16_ForeignSide(tx) ==
    IF IsForeign(tx.account) /\ ~IsForeign(TransferAccount(tx)) THEN tx.account
    ELSE IF ~IsForeign(tx.account) /\ IsForeign(TransferAccount(tx)) THEN TransferAccount(tx)
    ELSE ""

\* the memo amount and the fallback amount of the row are both there and
\* differ by more than 20% of the fallback amount
C16_OutOfTolerance(tx) ==
    LET acc == C16_ForeignSide(tx)
        fallback_amount == OutflowOrInflow(tx) * ConvFallback(AccCurrency(acc))
    IN  /\ acc # ""
        /\ MemoMatches(tx, AccCurrency(acc))
        /\ ConvFallback(AccCurrency(acc)) # 0
        /\ 5 * Abs(tx.memo.num - fallback_amount) > fallback_amount

(* C16: no Transfer leg is built from a row between a foreign and a
   default-currency account, in either direction, whose memo amount and
   fallback amount differ by more than 20% of the fallback amount:
   canonicalization fails on such a row. *)
C16_ToleranceBothDirections ==
    Canonicalized =>
        \A i \in TransferRows : Emitted(i) => ~C16_OutOfTolerance(all_transactions[i])

\* the row _amount is applied to for a leg
C17_AmountRow(leg) ==
    IF leg.type = "transfer" THEN CorrectTransferToFrom(SourceRow(leg)) ELSE SourceRow(leg)

(* C17: the amount of a leg on a foreign-currency account has the memo
   amount as its magnitude when the memo names the account's currency, even
   if a fallback rate is configured; otherwise it is the row amount times the
   fallback rate of the currency; and no leg is built when neither is there. *)
C17_MemoThenFallbackThenError ==
    Canonicalized =>
        \A leg \in AllLegs :
            LET tx == C17_AmountRow(leg)
                rate == ConvFallback(AccCurrency(tx.account))
            IN  IsForeign(tx.account) =>
                   IF tx.memo.code = AccCurrency(tx.account)
                   THEN Abs(leg.amount) = tx.memo.num
                   ELSE rate # 0 /\ leg.amount = OutflowOrInflow(tx) * rate

C17_Witness ==
    /\ Canonicalized
    /\ \E leg \in AllLegs :
          /\ leg.type = "deposit"
          /\ IsForeign(leg.account)
          /\ ConvFallback(AccCurrency(leg.account)) # 0
          /\ SourceRow(leg).memo.code = AccCurrency(leg.account)
          /\ Abs(leg.amount) # SourceRow(leg).inflow * ConvFallback(AccCurrency(leg.account))
    /\ \E leg \in AllLegs :
          /\ leg.type = "withdrawal"
          /\ IsForeign(leg.account)
          /\ SourceRow(leg).memo.code \notin {"", AccCurrency(leg.account)}
          /\ leg.amount = SourceRow(leg).outflow * ConvFallback(AccCurrency(leg.account))
    /\ \E leg \in AllLegs :
          /\ leg.type = "withdrawal"
          /\ IsForeign(leg.account)
          /\ ConvFallback(AccCurrency(leg.account)) = 0

(* C18: a Transfer leg has a foreign_amount if and only if exactly one of
   its two accounts is a foreign-currency account. *)
C18_ForeignAmountIffOneSideForeign ==
    Canonicalized =>
        \A leg \in AllLegs :
            leg.type = "transfer" =>
                (leg.foreign_amount # 0
                    <=> (IsForeign(leg.from_account) # IsForeign(leg.to_account)))

C18_Witness ==
    /\ Canonicalized
    /\ \E leg \in AllLegs :
          /\ leg.type = "transfer"
          /\ IsForeign(leg.from_account) /\ IsForeign(leg.to_account)
          /\ leg.foreign_amount = 0
    /\ \E leg \in AllLegs :
          /\ leg.type = "transfer"
          /\ IsForeign(leg.from_account) /\ ~IsForeign(leg.to_account)
          /\ leg.foreign_amount # 0
    /\ \E leg \in AllLegs :
          /\ leg.type = "transfer"
          /\ ~IsForeign(leg.from_account) /\ IsForeign(leg.to_account)
          /\ leg.foreign_amount # 0

-----------------------------------------------------------------------------
(* The reconciliation passes *)

\* the passes that reconcile a kind of entity, in the order of run()
SupportingPasses ==
    <<"currencies", "categories", "create_budgets", "budget_limits",
      "asset_accounts", "revenue", "expense">>

IsPrefix(s, t) == Len(s) <= Len(t) /\ s = SubSeq(t, 1, Len(s))

\* the position of the pass that made a call
CallRank(call) ==
    LET name == IF call.pass = "budgets" THEN "create_budgets" ELSE call.pass
    IN  CHOOSE i \in 1..Len(SupportingPasses) : SupportingPasses[i] = name

\* C14: the passes are entered in the order currencies, categories, budgets,
\* budget limits, asset accounts, revenue accounts, expense accounts, each
\* one after the one before it returned, their calls follow that order, and
\* no transaction group is submitted before all of them have returned.
C14_PassOrder ==
    /\ IsPrefix(SelectSeq(passes, LAMBDA p : p \notin {"load_cache", "available_budgets"}),
                SupportingPasses)
    /\ \A i \in 1..Len(calls) : \A j \in i..Len(calls) :
          CallRank(calls[i]) <= CallRank(calls[j])
    /\ (pc \in {"begin", "create", "done"} \/ posted # <<>>) =>
          SelectSeq(passes, LAMBDA p : p \notin {"load_cache", "available_budgets"})
              = SupportingPasses

\* a group was submitted after passes that each called the remote
C14_Witness ==
    /\ posted # <<>>
    /\ \E k \in 1..Len(calls) : calls[k].method = "PUT" /\ calls[k].pass = "asset_accounts"
    /\ \E k \in 1..Len(calls) : calls[k].method = "GET" /\ calls[k].pass = "revenue"

\* the kinds of entity, named by the position of run() that reconciles them
Kinds == {SupportingPasses[i] : i \in 1..Len(SupportingPasses)}

\* the cache of a kind
KindCache(kind, data, payees) ==
    CASE kind = "currencies" -> data.currencies
      [] kind = "categories" -> data.categories
      [] kind = "create_budgets" -> data.budgets
      [] kind = "budget_limits" -> data.budget_limits
      [] kind = "asset_accounts" -> data.asset_accounts
      [] OTHER -> payees[kind]

\* the calls made for a kind
KindCalls(kind) ==
    SelectSeq(calls, LAMBDA c : SupportingPasses[CallRank(c)] = kind)

\* C13: a pass that run() enters with a non-empty cache of its kind makes no
\* call to the remote (no listing, no create) and leaves that cache, and the
\* cache file, as they were.
C13_PopulatedCacheSkipsPass ==
    [][\A kind \in Kinds :
          (pc = kind /\ KindCache(kind, firefly_data, firefly_payees) # EmptyMap) =>
              /\ calls' = calls
              /\ KindCache(kind, firefly_data', firefly_payees')
                    = KindCache(kind, firefly_data, firefly_payees)
              /\ cache_file' = cache_file
              /\ pc' = AfterPass(kind)]_vars

\* the budgets pass returned with the budgets it loaded from the cache file,
\* against a remote that holds no budget, without a call
C13_Witness ==
    /\ pc = "budget_limits"
    /\ remote.budgets = "none"
    /\ firefly_data.budgets # EmptyMap
    /\ firefly_data.budgets = cache_file.data.budgets
    /\ KindCalls("create_budgets") = <<>>

\* the natural keys of the desired entities of a kind
DesiredKeys(kind) ==
    CASE kind = "categories" -> categories
      [] kind = "create_budgets" -> DOMAIN budgets
      [] kind = "budget_limits" -> {LimitKey(h) : h \in BudgetHistory}
      [] kind = "asset_accounts" -> asset_accounts
      [] kind = "revenue" -> revenue_accounts
      [] kind = "expense" -> expense_accounts
      [] OTHER -> {}

\* the pass of a kind was entered and returned without an exception
PassReturned(kind) ==
    \E i \in 1..Len(passes) :
        passes[i] = kind /\ (i < Len(passes) \/ pc = AfterPass(kind))

\* C11: once the pass of a kind (categories, budgets, budget limits, asset
\* accounts, revenue accounts, expense accounts) has returned without error,
\* the key of every desired entity of the kind is in the cache, whatever the
\* cache held when the pass started.
C11_DesiredKeysCached ==
    \A kind \in Kinds \ {"currencies"} :
        PassReturned(kind) =>
            DesiredKeys(kind) \subseteq DOMAIN KindCache(kind, firefly_data, firefly_payees)

\* the number of calls of a method that the budgets pass made for a budget
BudgetCalls(method, name) ==
    Len(SelectSeq(calls, LAMBDA c :
            c.pass = "budgets" /\ c.method = method /\ c.target = name))

\* C12: for a budget that the remote already holds under the desired name,
\* the budgets pass issues no create call, no update call when the remote's
\* name and active equal the desired ones, and exactly one update call when
\* one of them differs; on a first run and on a rerun with a populated cache.
C12_BudgetUpdateIffDiffers ==
    (PassReturned("create_budgets") /\ remote.budgets # "none") =>
        \A name \in DOMAIN budgets :
            /\ BudgetCalls("POST", name) = 0
            /\ BudgetCalls("PUT", name) = IF remote.budgets = "differs" THEN 1 ELSE 0

\* the currencies of the configured accounts
ForeignCurrencies == {AccCurrency(a) : a \in ConfigAccounts} \ {""}

\* the fixed list of currencies that stay enabled
AllowList == {"INR", "EUR"}

\* the currencies pass called /api/v1/currencies/<code>/<action>
CurrencyCalled(code, action) ==
    \E i \in 1..Len(calls) :
        calls[i] = Call("currencies", "POST", <<code, action>>)

\* C19: after the currencies pass on an empty currency cache, the configured
\* currency was made default if it was not and enabled if it was not, no
\* enabled currency of a configured account or of the allow-list received a
\* disable call, and every other enabled currency received one.
C19_CurrencyActivation ==
    (PassReturned("currencies") /\ KindCalls("currencies") # <<>>) =>
        LET listing == CurrencyTable(remote.currencies)
            kept == ForeignCurrencies \cup AllowList \cup {ConfigCurrency}
        IN  /\ CurrencyCalled(ConfigCurrency, "default") <=> ~listing[ConfigCurrency].default
            /\ CurrencyCalled(ConfigCurrency, "enable") <=> ~listing[ConfigCurrency].enabled
            /\ \A c \in kept : ~CurrencyCalled(c, "disable")
            /\ \A c \in CurrencyCodes \ kept :
                  listing[c].enabled => CurrencyCalled(c, "disable")

\* the run ended with the HTTP error of its last call
AbortedByCall(i) == pc = "aborted" /\ error = "HTTPError" /\ i = Len(calls)

\* C20: a failed call ends the run, unless it is a budget update (PUT)
\* answered with a 5xx status, which is ignored; a failed create, a failed
\* listing and an update failing with another status are fatal.
C20_OnlyBudgetUpdate5xxTolerated ==
    \A i \in 1..Len(calls) :
        Fails(calls[i].pass, calls[i].method) =>
            IF calls[i].pass = "budgets" /\ calls[i].method = "PUT"
                  /\ fault.status \in 500..599
            THEN ~AbortedByCall(i)
            ELSE AbortedByCall(i)

-----------------------------------------------------------------------------
(* The date filters *)

\* the date lies after the configured max date or before the configured min date
C21_OutOfRange(d) ==
    \/ filter_max_date # 0 /\ d > filter_max_date
    \/ filter_min_date # 0 /\ d < filter_min_date

\* C21: a group whose first leg is dated after the max date or before the
\* min date is never submitted and is counted as ignored; a group dated at a
\* bound, and every group when no bound is set, is not filtered out.
C21_DateFilters ==
    /\ \A n \in 1..Len(posted) :
          ~C21_OutOfRange(GroupDate(transaction_groups[posted[n]]))
    /\ ignored = Cardinality({i \in 1..idx :
                      C21_OutOfRange(GroupDate(transaction_groups[i]))})
    /\ \A i \in 1..idx :
          ~C21_OutOfRange(GroupDate(transaction_groups[i])) =>
              \E n \in 1..Len(posted) : posted[n] = i

\* the loop ended having ignored a group and submitted one dated at a bound
C21_Witness ==
    /\ pc = "done"
    /\ ignored > 0
    /\ \E n \in 1..Len(posted) :
          GroupDate(transaction_groups[posted[n]]) = filter_max_date

-----------------------------------------------------------------------------
(* The dry run *)

\* C22: a dry run makes no remote call (no connection check, no listing,
\* create or update, no transaction submission), neither loads nor writes
\* the cache, and still runs the canonicalization of budgets, accounts and
\* transactions, whose validation errors end it.
C22_DryRunTouchesNothing ==
    /\ [](dry_run =>
          /\ ~connected
          /\ calls = <<>>
          /\ passes = <<>>
          /\ posted = <<>>
          /\ firefly_data = NoFireflyData
          /\ firefly_payees = NoPayees
          /\ pc = "done" =>
                /\ budgets = ProcessedBudgets
                /\ asset_accounts = InOrder(AccountNames(all_transactions))
                /\ transaction_groups = ProcessedTransactions(all_transactions).groups
                /\ ProcessedTransactions(all_transactions).err = ""
          /\ pc = "aborted" =>
                error \in {"AssertionError", "KeyError", "ValueError"})
    /\ [][dry_run => cache_file' = cache_file]_vars

\* a dry run beside a cache file and a remote that refuses the connection
\* check, ended by the validation error of a row
C22_Witness ==
    /\ dry_run
    /\ pc = "aborted"
    /\ error = "ValueError"
    /\ cache_file = StaleFile
    /\ fault.pass = "verify_connection"

-----------------------------------------------------------------------------
(* Groups without legs *)

\* C23: no group in the list that _process_transactions builds has zero
\* legs, also when every row of a group of rows was a transfer row that the
\* deduplication discarded.
C23_NoEmptyGroup ==
    \A g \in 1..Len(transaction_groups) : transaction_groups[g].transactions # <<>>

\* the canonicalization ended, and all rows of one group of rows were
\* transfer rows that left no leg
C23_Witness ==
    /\ Canonicalized
    /\ \E k \in 1..Len(AllTxGrouped(all_transactions)) :
          \A n \in 1..Len(AllTxGrouped(all_transactions)[k]) :
              /\ IsTransfer(all_transactions[AllTxGrouped(all_transactions)[k][n]])
              /\ ~Emitted(AllTxGrouped(all_transactions)[k][n])

-----------------------------------------------------------------------------
(* The checkpoint balances *)

\* the rows of an account within a month
C24_RowsOf(month, account) ==
    {i \in 1..Len(all_transactions) :
        /\ all_transactions[i].account = account
        /\ MonthStart(all_transactions[i].date) = month}

\* the rows of the account's last day in the month
C24_LastRows(month, account) ==
    {i \in C24_RowsOf(month, account) :
        \A j \in C24_RowsOf(month, account) :
            all_transactions[j].date <= all_transactions[i].date}

\* C24: after _process_transactions, for every month and every account with
\* a row in that month, running_balances[month][account] is the running
\* balance of the account's chronologically last row of the month.
C24_BalanceAtEndOfMonth ==
    Canonicalized =>
        \A i \in 1..Len(all_transactions) :
            LET month == MonthStart(all_transactions[i].date)
                account == all_transactions[i].account
            IN  /\ <<month>> \in DOMAIN running_balances
                /\ account \in DOMAIN running_balances[<<month>>]
                /\ running_balances[<<month>>][account] \in
                      {all_transactions[j].running_balance :
                          j \in C24_LastRows(month, account)}

-----------------------------------------------------------------------------
(* Updates *)

\* the type-aware equality of a desired value and a remote attribute: a date
\* by its YYYY-MM-DD rendering, a number by its value against a remote value
\* that is not null, anything against a null or absent remote value by being
\* zero, anything else by plain equality
C25_Equal(obj, firefly_obj) ==
    CASE obj.t = "date" -> firefly_obj = [t |-> "str", v |-> <<"YYYY-MM-DD", obj.v[1]>>]
      [] obj.t = "num" /\ firefly_obj # None ->
            firefly_obj.t = "num" /\ firefly_obj.v[1] = obj.v[1]
      [] obj.t # "date" /\ firefly_obj = None ->
            \/ obj.t = "num" /\ obj.v[1] = 0
            \/ obj.t = "bool" /\ obj.v[1] = FALSE
      [] OTHER -> obj = firefly_obj

\* some desired field differs from the cached attribute
C25_Differs(obj, cached) ==
    \E k \in DOMAIN obj :
        ~C25_Equal(obj[k], IF k \in DOMAIN cached.attributes
                           THEN cached.attributes[k] ELSE None)

\* the step added an update call of a pass for a target
C25_Updated(pass, target) ==
    \E i \in (Len(calls) + 1)..Len(calls') : calls'[i] = Call(pass, "PUT", target)

\* C25: for a desired entity whose key is in the cache, an update is issued if
\* and only if some desired field differs from the cached remote attribute
\* under the type-aware equality; attributes that only the remote holds
\* cause no update.  Stated for the budgets and the asset accounts, of the
\* passes that return without error.
C25_UpdateIffDiffers ==
    [][/\ (pc = "create_budgets" /\ pc' = AfterPass("create_budgets")) =>
            \A n \in DOMAIN budgets \cap DOMAIN firefly_data'.budgets :
                C25_Updated("budgets", n)
                    <=> C25_Differs(BudgetData(n), firefly_data'.budgets[n])
        /\ (pc = "asset_accounts" /\ pc' = AfterPass("asset_accounts")) =>
            \A a \in AssetAccountNames \cap DOMAIN firefly_data'.asset_accounts :
                AccountCurrency(a) \in DOMAIN firefly_data.currencies =>
                    (C25_Updated("asset_accounts", a)
                        <=> C25_Differs(AssetData(a, firefly_data.currencies),
                                        firefly_data'.asset_accounts[a]))]_vars

(* C26: every leg's external_id is the text of the running balance of the row
   it was built from, as that row stands in the register; a leg built from an
   inflow-side transfer row, whose rewritten copy has running balance -1,
   does not carry -1. *)
C26_Rewritten(leg) ==
    /\ leg.type = "transfer"
    /\ SourceRow(leg).outflow = 0
    /\ CorrectTransferToFrom(SourceRow(leg)).running_balance = -1

C26_ExternalIdIsOriginalBalance ==
    Canonicalized =>
        \A leg \in AllLegs :
            /\ leg.external_id = DecimalStr(SourceRow(leg).running_balance)
            /\ C26_Rewritten(leg) => leg.external_id # DecimalStr(-1)

C26_Witness ==
    /\ Canonicalized
    /\ \E leg \in AllLegs :
          /\ C26_Rewritten(leg)
          /\ leg.from_account # SourceRow(leg).account
          /\ leg.external_id = DecimalStr(550)
    /\ \E leg \in AllLegs : leg.type = "withdrawal" /\ leg.external_id = DecimalStr(30)

(* C27: when the memo of a row that involves a foreign-currency account names
   the account's currency and gives the amount with the thousands marker K,
   the amount taken from the memo is the number times 1000: as the leg
   amount (whatever its sign) of a row of a foreign account, and as the
   foreign_amount of a transfer from a default-currency account to a foreign
   one. *)
C27_Marked(leg) == SourceRow(leg).memo.k

C27_ForeignRowLeg(leg) ==
    /\ IsForeign(SourceRow(leg).account)
    /\ leg.type \in {"withdrawal", "deposit"}
    /\ MemoMatches(SourceRow(leg), AccCurrency(SourceRow(leg).account))

C27_DefaultToForeign(leg) ==
    /\ leg.type = "transfer"
    /\ ~IsForeign(leg.from_account)
    /\ IsForeign(leg.to_account)
    /\ MemoMatches(SourceRow(leg), AccCurrency(leg.to_account))

C27_ThousandsMarker ==
    Canonicalized =>
        \A leg \in AllLegs :
            /\ C27_Marked(leg) /\ C27_ForeignRowLeg(leg) =>
                  Abs(leg.amount) = 1000 * SourceRow(leg).memo.num
            /\ C27_Marked(leg) /\ C27_DefaultToForeign(leg) =>
                  leg.foreign_amount = 1000 * SourceRow(leg).memo.num

\* the part of C27 about the leg amount of a foreign-account row
C27_LegAmount ==
    Canonicalized =>
        \A leg \in AllLegs :
            C27_Marked(leg) /\ C27_ForeignRowLeg(leg) =>
                Abs(leg.amount) = 1000 * SourceRow(leg).memo.num

\* the part of C27 about the foreign_amount of a default-to-foreign transfer
C27_ForeignAmount ==
    Canonicalized =>
        \A leg \in AllLegs :
            C27_Marked(leg) /\ C27_DefaultToForeign(leg) =>
                leg.foreign_amount = 1000 * SourceRow(leg).memo.num

\* without the marker the memo number is taken as it stands
C27_Unmarked ==
    Canonicalized =>
        \A leg \in AllLegs :
            /\ ~C27_Marked(leg) /\ C27_ForeignRowLeg(leg) =>
                  Abs(leg.amount) = SourceRow(leg).memo.num
            /\ ~C27_Marked(leg) /\ C27_DefaultToForeign(leg) =>
                  leg.foreign_amount = SourceRow(leg).memo.num

(* C28: get_all_pages terminates for every listing the remote can return, and
   what it returns is the concatenation, in page order, of the data of the
   pages 1..total_pages, each of them requested exactly once: at no moment
   has a page beyond total_pages been requested. *)
C28_InOrder(n) == paging.requests = [i \in 1..n |-> i]

C28_Requested ==
    paging.pc \in {"loop", "returned"} =>
        /\ C28_InOrder(Len(paging.requests))
        /\ Len(paging.requests) <= paging.response.total_pages

C28_Returned ==
    paging.pc = "returned" =>
        /\ C28_InOrder(paging.response.total_pages)
        /\ paging.all_response =
              ConcatAll(SubSeq(paging.first_listing, 1, paging.response.total_pages))

C28_GetAllPages ==
    /\ []C28_Requested
    /\ []C28_Returned
    /\ <>(paging.pc = "returned")

\* the same for a listing that no other client changes during the call
C28_StableListing ==
    paging.drop_after = 0 => C28_GetAllPages

\* the call alone: it ends
C28_Terminates == <>(paging.pc = "returned")

(* C29: after _process_budgets the budgets "Available this month" and
   "Available next month" are present and active whatever the budget file
   holds; the budget of a hidden-category row is named by the segment between
   the backticks followed by " (hidden)" and is inactive; the budget of a row
   that is not hidden is active; every budget other than the two comes from a
   row that is not pre-YNAB; and no category of a hidden-category row is in
   the known categories. *)
C29_Processed == DOMAIN budgets # {}

C29_HiddenName(bg) == <<bg.sub_category[2], " (hidden)">>

C29_Contributes(bg) == ~IsPreYnab(bg) /\ bg.sub_category # EmptyText

C29_NameOf(bg) == IF IsHidden(bg) THEN C29_HiddenName(bg) ELSE bg.sub_category

C29_ProcessBudgets ==
    C29_Processed =>
        /\ \A n \in SyntheticBudgets : n \in DOMAIN budgets /\ budgets[n]
        /\ \A bg \in BudgetRows :
              C29_Contributes(bg) =>
                  /\ C29_NameOf(bg) \in DOMAIN budgets
                  /\ budgets[C29_NameOf(bg)] = ~IsHidden(bg)
        /\ \A n \in DOMAIN budgets \ SyntheticBudgets :
              \E bg \in BudgetRows : C29_Contributes(bg) /\ C29_NameOf(bg) = n
        /\ \A bg \in BudgetRows : IsHidden(bg) => bg.sub_category \notin categories

C29_Witness ==
    /\ C29_Processed
    /\ \E bg \in BudgetRows : IsHidden(bg) /\ ~budgets[C29_HiddenName(bg)]
    /\ \E bg \in BudgetRows : IsPreYnab(bg) /\ bg.sub_category \notin DOMAIN budgets
    /\ \E bg \in BudgetRows :
          ~IsHidden(bg) /\ C29_Contributes(bg) /\ budgets[bg.sub_category]

-----------------------------------------------------------------------------
(* The loop of _create_transactions as a whole *)

\* the step in hand met a failure: a submission the remote rejected with
\* something other than duplicates, or a checkpoint that found a mismatch
C30_Failed ==
    \/ posted' # posted /\ SubmissionError(response') # ""
    \/ \E m \in verified' \ verified : BalanceMismatch(m, firefly_balances')

\* the groups within the date filters
C30_InFilter ==
    {i \in GroupIndices : ~C21_OutOfRange(GroupDate(transaction_groups[i]))}

(* C30: if no remote call fails and no checkpoint finds a mismatch,
   _create_transactions returns normally, whatever the number of groups and
   of months: it raises only in a step that met a failure, and when it has
   returned every group within the date filters was submitted exactly once
   and no other group was. *)
C30_SubmitsEveryGroupOnce ==
    /\ [][(pc \in {"begin", "create"} /\ pc' = "aborted") => C30_Failed]_vars
    /\ [](pc = "done" /\ ~dry_run =>
            /\ \A i \in C30_InFilter :
                  Cardinality({n \in 1..Len(posted) : posted[n] = i}) = 1
            /\ \A n \in 1..Len(posted) : posted[n] \in C30_InFilter)

-----------------------------------------------------------------------------
(* What counts as imported *)

\* the leg indices of the group the loop has in hand, as the remote numbers them
C31_LegIndices == 0..(Len(transaction_groups[idx + 1].transactions) - 1)

\* the legs the answer reports as duplicates of existing transactions
C31_ReportedDuplicate(resp) == DOMAIN CreateTransactionErrors(resp.errors).dup_errors

\* every leg of the group in hand was created or reported as a duplicate
C31_EveryLegAccounted(resp) ==
    \/ resp.status = 200
    \/ /\ resp.status = 422
       /\ C31_LegIndices \subseteq C31_ReportedDuplicate(resp)

\* an answer the remote can give to the group in hand: its per-leg errors
\* name legs of the group, and a rejection names at least one error
C31_AboutGroup(resp) ==
    /\ \A n \in 1..Len(resp.errors) :
          resp.errors[n].field = "transactions" => resp.errors[n].tx_idx \in C31_LegIndices
    /\ resp.status = 422 => resp.errors # <<>>

\* a rejection that reports some legs of the group as duplicates, says
\* nothing of the others and carries no other error
C31_PartialDuplicate(resp) ==
    /\ resp.status = 422
    /\ C31_AboutGroup(resp)
    /\ C9_AllDuplicates(resp)
    /\ C31_LegIndices \ C31_ReportedDuplicate(resp) # {}

(* C31: a group is counted as imported only if every one of its legs was
   created by the remote or reported by it as a duplicate; a rejected batch
   in which only some legs are reported as duplicates and the others carry
   no error is not counted. *)
C31_ImportedOnlyIfEveryLeg ==
    [][ /\ (imported' # imported /\ C31_AboutGroup(response')) =>
              C31_EveryLegAccounted(response')
        /\ (posted' # posted /\ C31_PartialDuplicate(response')) => imported' = imported
      ]_vars

\* the second half of C31 alone
C31_PartialNotCounted ==
    [][(posted' # posted /\ C31_PartialDuplicate(response')) => imported' = imported]_vars

-----------------------------------------------------------------------------
(* The category of a leg *)

\* the row of the leg taken as the very first row of the loops
C32_Alone(leg) ==
    ProcessRow(all_transactions, leg.src,
               [seen |-> EmptyMap, category |-> Unbound, err |-> "",
                groups |-> <<>>, legs |-> <<>>])

\* the leg has the category its row gets when nothing was processed before it
C32_SameAsAlone(leg) ==
    /\ C32_Alone(leg).err = ""
    /\ Len(C32_Alone(leg).legs) = 1
    /\ C32_Alone(leg).legs[1].category = leg.category

(* C32: the category of a Withdrawal or Deposit leg depends on the leg's own
   row and on the configuration only: the row gets the same category after
   any rows, as the very first row and when its budget is hidden, and no run
   ends with the error of an undefined category. *)
C32_CategoryOfOwnRow ==
    /\ error # "UnboundLocalError"
    /\ Canonicalized =>
          \A leg \in AllLegs : leg.type # "transfer" => C32_SameAsAlone(leg)

\* the part of C32 about the rows processed after other rows
C32_NoLeftOver ==
    Canonicalized =>
        \A leg \in AllLegs : leg.type # "transfer" => C32_SameAsAlone(leg)

\* the legs of rows whose budget is empty or active have their row's category
C32_ActiveOrNoBudget ==
    Canonicalized =>
        \A leg \in AllLegs :
            (leg.type # "transfer" /\ SourceRow(leg).master_category # "Hidden Categories")
                => /\ C32_SameAsAlone(leg)
                   /\ leg.category = IF leg.budget = EmptyText THEN EmptyText
                                      ELSE SourceRow(leg).sub_category

-----------------------------------------------------------------------------
(* The payee accounts in the cache *)

\* both payee passes found their cache empty (each listed the remote's
\* accounts) and have returned
C33_PayeesSynchronized ==
    /\ pc \in {"begin", "create", "done"}
    /\ \A kind \in {"revenue", "expense"} :
          \E n \in 1..Len(calls) : calls[n] = Call(kind, "GET", <<>>)

\* every cached payee account is the remote's representation, with its id
C33_EveryEntryHasId ==
    \A kind \in {"revenue", "expense"} :
        \A a \in DOMAIN firefly_payees[kind] : firefly_payees[kind][a] = "dict"

\* the payee of every Deposit and Withdrawal leg resolves to an account id
C33_PayeesResolve ==
    \A g \in GroupIndices : GroupLookupError(transaction_groups[g]) = ""

(* C33: after the revenue and expense passes on an empty cache every cache
   entry, listed or created, is the remote's representation with its id, and
   at submission the payee of every Deposit and Withdrawal leg resolves to a
   remote account id without error. *)
C33_PayeeCacheHoldsRepresentations ==
    C33_PayeesSynchronized => C33_EveryEntryHasId /\ C33_PayeesResolve

\* the same for the entries taken from the listing alone
C33_ListedEntries ==
    (C33_PayeesSynchronized /\ remote.revenue = "same" /\ remote.expense = "same") =>
        C33_EveryEntryHasId /\ C33_PayeesResolve

-----------------------------------------------------------------------------
(* The classification of a validation-error payload *)

C34_Result == CreateTransactionErrors(response.errors)

\* the legs for which the payload holds an item that is no duplicate message
C34_NonDuplicateLegs ==
    {response.errors[n].tx_idx :
        n \in {m \in 1..Len(response.errors) :
                  /\ response.errors[m].field = "transactions"
                  /\ ~IsDuplicateItem(response.errors[m])}}

(* C34: for every validation-error payload, its fields in any order,
   _firefly_create_transaction_errors returns a result, none of its
   assertions failing; no leg index is both in the duplicate errors and in
   the other per-leg errors; and a leg with any field error that is no
   duplicate message is in the other per-leg errors. *)
C34_ClassifiesEveryPayload ==
    response.status = 422 =>
        /\ C34_Result.err = ""
        /\ DOMAIN C34_Result.dup_errors \cap DOMAIN C34_Result.other_tx_errors = {}
        /\ C34_NonDuplicateLegs \subseteq DOMAIN C34_Result.other_tx_errors

\* what holds of the results that are returned
C34_WhenReturned ==
    (response.status = 422 /\ C34_Result.err = "") =>
        /\ DOMAIN C34_Result.dup_errors \cap DOMAIN C34_Result.other_tx_errors = {}
        /\ C34_NonDuplicateLegs \subseteq DOMAIN C34_Result.other_tx_errors

-----------------------------------------------------------------------------
(* The accounts the legs refer to *)

\* the account has rows in the export
C35_HasRows(acc) == acc \in AccountNames(all_transactions)

(* C35: after canonicalization every Deposit's payee is in revenue_accounts
   and every Withdrawal's payee in expense_accounts; the account of every
   Withdrawal and Deposit, and every Transfer's from and to account that has
   rows in the export, is in asset_accounts; and asset_accounts holds each
   distinct account name of the rows exactly once. *)
C35_LegsReferToSynchronized ==
    Canonicalized =>
        /\ \A leg \in AllLegs :
              /\ leg.type = "deposit" =>
                    leg.payee \in revenue_accounts /\ leg.account \in AssetAccountNames
              /\ leg.type = "withdrawal" =>
                    leg.payee \in expense_accounts /\ leg.account \in AssetAccountNames
              /\ leg.type = "transfer" =>
                    /\ C35_HasRows(leg.from_account) => leg.from_account \in AssetAccountNames
                    /\ C35_HasRows(leg.to_account) => leg.to_account \in AssetAccountNames
        /\ AssetAccountNames = AccountNames(all_transactions)
        /\ \A i, j \in 1..Len(asset_accounts) :
              i # j => asset_accounts[i] # asset_accounts[j]

C35_Witness ==
    /\ Canonicalized
    /\ \E leg \in AllLegs : leg.type = "deposit" /\ leg.payee \in revenue_accounts
    /\ \E leg \in AllLegs : leg.type = "withdrawal" /\ leg.payee \in expense_accounts
    /\ \E leg \in AllLegs :
          /\ leg.type = "transfer"
          /\ leg.from_account # SourceRow(leg).account
          /\ leg.from_account \in AssetAccountNames
    /\ Len(asset_accounts) = 5

====
